---- MODULE Spec2Model ----
(***************************************************************************)
(* The batch scheduler of core/batch_manager.py (BatchManager) driving the *)
(* transcription pipeline of core/transcriber.py (TranscriptionSystem).    *)
(*                                                                         *)
(* Python objects are references: the job table maps an id to the address  *)
(* of a BatchJob on the heap, a worker's local `job` is such an address,   *)
(* and so is the value get_job_status returns.  Each `with self.lock:`     *)
(* block is one step, and so is each queue operation, each test of the     *)
(* running flag and each call into the engine or the file system between   *)
(* two such blocks.  add_jobs is called from one thread, as the GUI does.  *)
(***************************************************************************)
EXTENDS Integers, Sequences, FiniteSets, TLC

(* ------------------------------ bounds -------------------------------- *)
\* paths added to one scheduler instance over its lifetime
MaxJobs == 2
\* worker threads ever spawned on one scheduler instance
MaxThreads == 4
\* segments of one exported transcription
MaxExported == 3

\* the latest second at which a segment or a turn ends
MaxTime == 5
\* segments of one transcription
MaxSegments == 2
\* turns of one diarization
MaxTurns == 2
\* segments of one transcription with pauses between them
MaxPausedSegments == 3

(* ------------------------- program constants -------------------------- *)
\* _simple_speaker_assignment: pause_threshold = 2.0 (seconds)
pause_threshold == 2

\* BatchManager.__init__(max_workers=2)
max_workers == 2

\* Optional values: None is the empty tuple, a set value a 1-tuple.
None == << >>
Some(v) == << v >>

\* BatchStatus
PENDING == "pending"
PROCESSING == "processing"
COMPLETED == "completed"
FAILED == "failed"
CANCELLED == "cancelled"
BatchStatus == {PENDING, PROCESSING, COMPLETED, FAILED, CANCELLED}

\* TranscriptionSystem.SUPPORTED_FORMATS
SUPPORTED_FORMATS == {".wav", ".mp3", ".m4a", ".flac", ".ogg", ".webm", ".mp4", ".mpeg"}

(* --------------------------- the environment -------------------------- *)
\* A path is <<directory, stem, suffix>>; one has a suffix outside the allow-list.
Paths == { <<"in", "a", ".wav">>, <<"in", "n", ".txt">> }
\* more paths: the same basename in another directory, an upper-case suffix
WidePaths == Paths \cup { <<"old", "a", ".wav">>, <<"in", "a", ".WAV">> }
\* settings dictionaries handed to add_jobs
SettingsSet == { [language |-> Some("en"), diarize |-> TRUE],
                 [language |-> None, diarize |-> FALSE] }
\* callers of add_jobs (the GUI thread)
Callers == {"gui"}
\* the threads that may call add_jobs on one scheduler: the GUI thread and
\* another thread of the application
AllCallers == Callers \cup {"other"}
Threads == 1..MaxThreads

\* time intervals <<start, end>>, in whole seconds
Intervals == { iv \in (0..MaxTime) \X (0..MaxTime) : iv[1] < iv[2] }
\* _convert_whisper_result: every segment starts out as "Speaker 1"
\* (text, confidence and words are not modelled)
TranscriptionSegment(iv) == [start |-> iv[1], end |-> iv[2], speaker |-> "Speaker 1"]
\* what the engine hands over: segments in time order that do not overlap
SegmentLists ==
  { [i \in 1..Len(q) |-> TranscriptionSegment(q[i])] :
      q \in { r \in UNION { [1..n -> Intervals] : n \in 0..MaxSegments } :
                \A i \in 1..(Len(r) - 1) : r[i][2] <= r[i + 1][1] } }
\* the pauses between two segments, in seconds: below, at and above the threshold
Gaps == {pause_threshold - 1, pause_threshold, pause_threshold + 3}
\* transcriptions of segments two seconds long with such pauses between them
PausedSegmentLists ==
  { LET start[i \in 1..(Len(g) + 1)] == IF i = 1 THEN 0 ELSE start[i - 1] + 2 + g[i - 1]
    IN [i \in 1..(Len(g) + 1) |-> TranscriptionSegment(<< start[i], start[i] + 2 >>)] :
      g \in UNION { [1..n -> Gaps] : n \in 0..(MaxPausedSegments - 1) } }
\* the labels of the diarization engine
SpeakerLabels == {"SPEAKER_00", "SPEAKER_01"}
\* what diarization.itertracks yields: turns with a label, in any order
TurnLists ==
  { [i \in 1..Len(q) |-> [start |-> q[i][1][1], end |-> q[i][1][2], speaker |-> q[i][2]]] :
      q \in UNION { [1..n -> Intervals \X SpeakerLabels] : n \in 0..MaxTurns } }

\* os.path.basename
basename(p) == p[2] \o p[3]
\* str.lower() on the suffixes and the format names that occur
lower(s) ==
  CASE s = ".WAV" -> ".wav"
    [] s = ".TXT" -> ".txt"
    [] s = "JSON" -> "json"
    [] s = "Txt" -> "txt"
    [] s = "SRT" -> "srt"
    [] s = "XML" -> "xml"
    [] OTHER -> s
\* a suffix check that compares the suffix as it is written
suffix_AsWritten(p) == p[3]
\* Path.suffix.lower()
suffix(p) == lower(p[3])
\* os.path.getsize of a readable file
getsize(p) == IF p[1] = "in" THEN 1024 ELSE 2048

\* an id made of the basename alone
JobIdOf_Basename(n, p) == "job_" \o basename(p)
\* f"job_{len(self.jobs)}_{os.path.basename(file_path)}"
JobIdOf(n, p) == "job_" \o ToString(n) \o "_" \o basename(p)
\* f"{output_dir}/{job_id}_{timestamp}.json" (the timestamp is not modelled)
OutputFile(job_id) == "./outputs/batch_results/" \o job_id \o "_ts.json"

\* every id add_jobs can produce within the bounds
AllIds == { JobIdOf(n, p) : n \in 0..MaxJobs, p \in WidePaths }

(* ------------------------------- state -------------------------------- *)
VARIABLES
  heap,             \* BatchJob objects, by address 1..Len(heap)
  jobs,             \* self.jobs: insertion-ordered dict, a sequence of [k, v]
  job_queue,        \* self.job_queue (FIFO of job ids)
  completed_queue,  \* self.completed_queue (FIFO of job ids)
  workers,          \* self.workers: the threads spawned, in order
  is_running,       \* self.is_running
  model,            \* TranscriptionSystem.model (None or the engine handle)
  w,                \* per worker thread: pc, job_id, job (address), exc
  adder,            \* per caller of add_jobs: pc, given (the file_paths argument),
                    \* file_paths (those the loop has yet to visit), settings,
                    \* job_ids, job_id, job
  held,             \* what the last get_job_status / get_all_jobs call returned:
                    \* the addresses of the BatchJob objects handed to the caller
  report,           \* export_batch_report: its position and the report built so far
  diar,             \* the speaker stage of one transcribe_file call: its position,
                    \* the segments, the diarization turns and the loop variables
  lock,             \* self.lock: the set of the threads that hold it
  exp,              \* one export_transcription call: its position, its arguments,
                    \* the lowered format, what it returned or raised
  fs,               \* the file system the export writes to: directories and files
  dequeued,         \* history: the ids taken off job_queue, in order
  outcome           \* history, by address: "none", then "ok" once transcription and
                    \* export have returned, or "raised" once one of them has raised

vars == << heap, jobs, job_queue, completed_queue, workers, is_running, model,
           w, adder, held, report, diar, lock, exp, fs, dequeued, outcome >>

(* --------------------------- dict operations --------------------------- *)
DictKeys(d) == { d[i].k : i \in 1..Len(d) }
DictHas(d, k) == \E i \in 1..Len(d) : d[i].k = k
DictGet(d, k) == d[CHOOSE i \in 1..Len(d) : d[i].k = k].v
\* d[k] = v: a new key is appended, an existing key keeps its place
DictSet(d, k, v) ==
  IF DictHas(d, k)
  THEN [i \in 1..Len(d) |-> IF d[i].k = k THEN [k |-> k, v |-> v] ELSE d[i]]
  ELSE Append(d, [k |-> k, v |-> v])

\* a BatchJob that records the whole path as its original_filename
NewBatchJob_WholePath(job_id, file_path, settings) ==
  [ id |-> job_id,
    file_path |-> file_path,
    status |-> PENDING,
    progress |-> 0,
    result_path |-> None,
    error |-> None,
    metadata |-> [ settings |-> settings,
                   original_filename |-> file_path[1] \o "/" \o basename(file_path),
                   file_size |-> getsize(file_path),
                   status_message |-> None ],
    created_at |-> Some("now"),
    completed_at |-> None ]

\* BatchJob(id=..., file_path=..., status=PENDING, progress=0.0, metadata={...})
NewBatchJob(job_id, file_path, settings) ==
  [ id |-> job_id,
    file_path |-> file_path,
    status |-> PENDING,
    progress |-> 0,
    result_path |-> None,
    error |-> None,
    metadata |-> [ settings |-> settings,
                   original_filename |-> basename(file_path),
                   file_size |-> getsize(file_path),
                   status_message |-> None ],
    created_at |-> Some("now"),
    completed_at |-> None ]

IdleWorker == [pc |-> "unborn", job_id |-> "", job |-> 0, exc |-> ""]
IdleAdder == [pc |-> "idle", given |-> << >>, file_paths |-> << >>,
              settings |-> [language |-> None, diarize |-> FALSE],
              job_ids |-> << >>, job_id |-> "", job |-> None]

\* no export_batch_report call has been made
IdleReport == [pc |-> "idle", total_jobs |-> 0, completed |-> 0, failed |-> 0, jobs |-> << >>]

\* no transcribe_file call has reached its speaker stage
IdleDiar == [pc |-> "idle", given |-> << >>, segments |-> << >>, pipeline |-> None,
             turns |-> << >>, i |-> 0, j |-> 0, best_speaker |-> "", best_overlap |-> 0,
             fallback |-> FALSE, emitted |-> << >>, returned |-> None]

\* no export_transcription call has been made
IdleExport == [pc |-> "idle", segments |-> << >>, given |-> "", format |-> "",
               output_path |-> << "", "" >>, returned |-> None, raised |-> None]

\* a file system without directories or files
EmptyFs == [dirs |-> {}, files |-> {}]

(* ------------------------------ self.lock ------------------------------ *)
\* the name of worker thread t
ThreadName(t) == "Thread-" \o ToString(t)

\* the thread of a call that takes the lock and leaves it again in one step
AnyThread == "caller"

\* `with self.lock:` entered ahead of the block's body: threading.Lock hands
\* the lock to one thread at a time, every other thread waits
Acquire(who) ==
  /\ lock = {}
  /\ lock' = {who}
  /\ UNCHANGED << heap, jobs, job_queue, completed_queue, workers, is_running, model,
                  w, adder, held, report, diar, exp, fs, dequeued, outcome >>

\* a block that is left with the lock still held
WithLock_Keep(who) ==
  /\ lock \subseteq {who}
  /\ lock' = {who}

\* the body of a `with self.lock:` block run by thread `who`, and the release
\* on leaving it: the body runs when the lock is free (the thread takes it on
\* entry) or when `who` has acquired it in an earlier step
WithLock(who) ==
  /\ lock \subseteq {who}
  /\ lock' = {}

\* BatchManager.__init__ and TranscriptionSystem.__init__
Init ==
  /\ heap = << >>
  /\ jobs = << >>
  /\ job_queue = << >>
  /\ completed_queue = << >>
  /\ workers = << >>
  /\ is_running = FALSE
  /\ model = None
  /\ w = [t \in Threads |-> IdleWorker]
  /\ adder = [c \in AllCallers |-> IdleAdder]
  /\ held = None
  /\ report = IdleReport
  /\ diar = IdleDiar
  /\ lock = {}
  /\ exp = IdleExport
  /\ fs = EmptyFs
  /\ dequeued = << >>
  /\ outcome = << >>

(* ------------------------------ add_jobs ------------------------------- *)
\* the argument lists of one add_jobs call
PathLists == { <<p>> : p \in Paths } \cup { <<p, q>> : p \in Paths, q \in Paths }
WidePathLists == { <<p>> : p \in WidePaths } \cup { <<p, q>> : p \in WidePaths, q \in WidePaths }

\* add_jobs is entered: job_ids = [] (at most MaxJobs paths are ever added)
AddJobsCall(c, file_paths, settings) ==
  /\ adder[c].pc \in {"idle", "raised"}
  /\ Len(jobs) + Len(file_paths) <= MaxJobs
  /\ adder' = [adder EXCEPT ![c] = [pc |-> "compute", given |-> file_paths,
                                    file_paths |-> file_paths,
                                    settings |-> settings, job_ids |-> << >>,
                                    job_id |-> "", job |-> None]]
  /\ UNCHANGED << lock, exp, fs, report, diar, heap, jobs, job_queue, completed_queue, workers, is_running,
                  model, w, dequeued, outcome, held >>

\* lines 48-59: the id is derived from len(self.jobs), read without the lock,
\* and the BatchJob is built
AddJobsCompute(c) ==
  /\ adder[c].pc = "compute"
  /\ adder[c].file_paths # << >>
  /\ LET file_path == Head(adder[c].file_paths)
         job_id == JobIdOf(Len(jobs), file_path)
     IN adder' = [adder EXCEPT ![c].pc = "insert",
                               ![c].job_id = job_id,
                               ![c].job = Some(NewBatchJob(job_id, file_path, adder[c].settings))]
  /\ UNCHANGED << lock, exp, fs, report, diar, heap, jobs, job_queue, completed_queue, workers, is_running,
                  model, w, dequeued, outcome, held >>

\* an add_jobs that takes back the jobs of the call when a size cannot be read
AddJobsRaise_Rollback(c) ==
  /\ adder[c].pc = "compute"
  /\ adder[c].file_paths # << >>
  /\ adder' = [adder EXCEPT ![c] = [IdleAdder EXCEPT !.pc = "raised"]]
  /\ jobs' = SelectSeq(jobs, LAMBDA e : e.k \notin { adder[c].job_ids[i] : i \in 1..Len(adder[c].job_ids) })
  /\ job_queue' = SelectSeq(job_queue, LAMBDA id : id \notin { adder[c].job_ids[i] : i \in 1..Len(adder[c].job_ids) })
  /\ UNCHANGED << lock, exp, fs, report, diar, heap, completed_queue, workers, is_running,
                  model, w, dequeued, outcome, held >>

\* line 57: os.path.getsize raises OSError, which leaves add_jobs: the caller
\* gets the exception and no list
AddJobsRaise(c) ==
  /\ adder[c].pc = "compute"
  /\ adder[c].file_paths # << >>
  /\ adder' = [adder EXCEPT ![c] = [IdleAdder EXCEPT !.pc = "raised"]]
  /\ UNCHANGED << lock, exp, fs, report, diar, heap, jobs, job_queue, completed_queue, workers, is_running,
                  model, w, dequeued, outcome, held >>

\* lines 61-65: under the lock the job enters the table and its id the queue
AddJobsInsert(c) ==
  /\ adder[c].pc = "insert"
  /\ heap' = Append(heap, adder[c].job[1])
  /\ outcome' = Append(outcome, "none")
  /\ jobs' = DictSet(jobs, adder[c].job_id, Len(heap) + 1)
  /\ job_queue' = Append(job_queue, adder[c].job_id)
  /\ adder' = [adder EXCEPT ![c].pc = "compute",
                            ![c].file_paths = Tail(@),
                            ![c].job_ids = Append(@, adder[c].job_id),
                            ![c].job_id = "",
                            ![c].job = None]
  /\ WithLock(c)
  /\ UNCHANGED << exp, fs, report, diar, completed_queue, workers, is_running, model, w, dequeued, held >>

\* line 67: return job_ids
AddJobsReturn(c) ==
  /\ adder[c].pc = "compute"
  /\ adder[c].file_paths = << >>
  /\ adder' = [adder EXCEPT ![c] = IdleAdder]
  /\ UNCHANGED << lock, exp, fs, report, diar, heap, jobs, job_queue, completed_queue, workers, is_running,
                  model, w, dequeued, outcome, held >>

(* ------------------- start_workers, stop, cancel_job ------------------- *)
\* is_running = True, then max_workers daemon threads enter _worker_loop
\* (at most MaxThreads threads are ever spawned)
start_workers ==
  /\ Len(workers) + max_workers <= MaxThreads
  /\ is_running' = TRUE
  /\ LET new == (Len(workers) + 1)..(Len(workers) + max_workers)
     IN /\ workers' = [i \in 1..(Len(workers) + max_workers) |-> i]
        /\ w' = [t \in Threads |-> IF t \in new THEN [w[t] EXCEPT !.pc = "loop"] ELSE w[t]]
  /\ UNCHANGED << lock, exp, fs, report, diar, heap, jobs, job_queue, completed_queue, model, adder, dequeued, outcome, held >>

\* BatchWorkerThread.run: the GUI calls start_workers once on a new BatchManager
StartOnce ==
  /\ workers = << >>
  /\ start_workers

\* BatchWorkerThread.stop: batch_manager.is_running = False
stop ==
  /\ is_running' = FALSE
  /\ UNCHANGED << lock, exp, fs, report, diar, heap, jobs, job_queue, completed_queue, workers, model, w, adder,
                  dequeued, outcome, held >>

\* cancel_job that puts the job back to PENDING instead of marking it
Cancelled_Reset(h, job) == [h EXCEPT ![job].status = PENDING]

\* cancel_job that also puts the progress back to zero
Cancelled_Rewind(h, job) == [h EXCEPT ![job].status = CANCELLED, ![job].progress = 0]

\* line 155
Cancelled(h, job) == [h EXCEPT ![job].status = CANCELLED]

\* cancel_job that takes the job out of the table
cancel_job_Remove(job_id) ==
  /\ jobs' = SelectSeq(jobs, LAMBDA e : e.k # job_id)
  /\ WithLock(AnyThread)
  /\ UNCHANGED << exp, fs, report, diar, heap, job_queue, completed_queue, workers, is_running, model, w,
                  adder, dequeued, outcome, held >>

\* cancel_job that writes the status without taking the lock
cancel_job_Unlocked(job_id) ==
  /\ heap' = IF DictHas(jobs, job_id) THEN Cancelled(heap, DictGet(jobs, job_id)) ELSE heap
  /\ UNCHANGED << lock, exp, fs, report, diar, jobs, job_queue, completed_queue, workers,
                  is_running, model, w, adder, dequeued, outcome, held >>

\* cancel_job: under the lock, a known job's status becomes CANCELLED
cancel_job(job_id) ==
  /\ heap' = IF DictHas(jobs, job_id) THEN Cancelled(heap, DictGet(jobs, job_id)) ELSE heap
  /\ WithLock(AnyThread)
  /\ UNCHANGED << exp, fs, report, diar, jobs, job_queue, completed_queue, workers, is_running, model, w,
                  adder, dequeued, outcome, held >>

(* -------------------- get_job_status, get_all_jobs --------------------- *)
\* self.jobs.get(job_id): the BatchJob object in the table itself, or None
get_job_status(job_id) ==
  /\ held' = Some([call |-> "get_job_status",
                   refs |-> IF DictHas(jobs, job_id) THEN << DictGet(jobs, job_id) >> ELSE << >>])
  /\ WithLock(AnyThread)
  /\ UNCHANGED << exp, fs, report, diar, heap, jobs, job_queue, completed_queue, workers, is_running, model, w,
                  adder, dequeued, outcome >>

\* a listing that also empties the completion channel
get_all_jobs_Drain ==
  /\ held' = Some([call |-> "get_all_jobs", refs |-> [i \in 1..Len(jobs) |-> jobs[i].v]])
  /\ completed_queue' = << >>
  /\ WithLock(AnyThread)
  /\ UNCHANGED << exp, fs, report, diar, heap, jobs, job_queue, workers, is_running, model, w,
                  adder, dequeued, outcome >>

\* list(self.jobs.values()): a new list of the BatchJob objects in the table
get_all_jobs ==
  /\ held' = Some([call |-> "get_all_jobs", refs |-> [i \in 1..Len(jobs) |-> jobs[i].v]])
  /\ WithLock(AnyThread)
  /\ UNCHANGED << exp, fs, report, diar, heap, jobs, job_queue, completed_queue, workers, is_running, model, w,
                  adder, dequeued, outcome >>

(* ------------------------- export_batch_report ------------------------ *)
\* asdict(job): a copy of the job as a dict, detached from the BatchJob object;
\* of the fields it copies, the id and the status are kept here
asdict(job) == [id |-> job.id, status |-> job.status]

\* sum(1 for j in self.jobs.values() if j.status == status)
CountStatus(status) ==
  Cardinality({ i \in 1..Len(jobs) : heap[jobs[i].v].status = status })

\* line 160: 'total_jobs': len(self.jobs), read without the lock
ReportTotal ==
  /\ report.pc \in {"idle", "done"}
  /\ report' = [IdleReport EXCEPT !.pc = "completed", !.total_jobs = Len(jobs)]
  /\ UNCHANGED << lock, exp, fs, diar, heap, jobs, job_queue, completed_queue, workers, is_running, model, w,
                  adder, held, dequeued, outcome >>

\* line 161: 'completed': one pass over self.jobs.values(), without the lock
ReportCompleted ==
  /\ report.pc = "completed"
  /\ report' = [report EXCEPT !.pc = "failed", !.completed = CountStatus(COMPLETED)]
  /\ UNCHANGED << lock, exp, fs, diar, heap, jobs, job_queue, completed_queue, workers, is_running, model, w,
                  adder, held, dequeued, outcome >>

\* line 162: 'failed': a second pass over self.jobs.values(), without the lock
ReportFailed ==
  /\ report.pc = "failed"
  /\ report' = [report EXCEPT !.pc = "jobs", !.failed = CountStatus(FAILED)]
  /\ UNCHANGED << lock, exp, fs, diar, heap, jobs, job_queue, completed_queue, workers, is_running, model, w,
                  adder, held, dequeued, outcome >>

\* lines 163-168: 'jobs': [asdict(job) for job in self.jobs.values()], a third pass
\* without the lock; the finished report is written to the file
ReportJobs ==
  /\ report.pc = "jobs"
  /\ report' = [report EXCEPT !.pc = "done",
                              !.jobs = [i \in 1..Len(jobs) |-> asdict(heap[jobs[i].v])]]
  /\ UNCHANGED << lock, exp, fs, diar, heap, jobs, job_queue, completed_queue, workers, is_running, model, w,
                  adder, held, dequeued, outcome >>

export_batch_report == ReportTotal \/ ReportCompleted \/ ReportFailed \/ ReportJobs

(* ----------------------------- _worker_loop ---------------------------- *)
\* a loop that goes on as long as the queue holds an id
WorkerLoop_Drain(t) ==
  /\ w[t].pc = "loop"
  /\ w' = [w EXCEPT ![t].pc = IF is_running \/ job_queue # << >> THEN "get" ELSE "exited"]
  /\ UNCHANGED << lock, exp, fs, report, diar, heap, jobs, job_queue, completed_queue, workers,
                  is_running, model, adder, dequeued, outcome, held >>

\* line 83: `while self.is_running`
WorkerLoop(t) ==
  /\ w[t].pc = "loop"
  /\ w' = [w EXCEPT ![t].pc = IF is_running THEN "get" ELSE "exited"]
  /\ UNCHANGED << lock, exp, fs, report, diar, heap, jobs, job_queue, completed_queue, workers, is_running, model,
                  adder, dequeued, outcome, held >>

\* a get that reads the head of the queue without removing it
WorkerGet_Peek(t) ==
  /\ w[t].pc = "get"
  /\ job_queue # << >>
  /\ w' = [w EXCEPT ![t].pc = "begin", ![t].job_id = Head(job_queue)]
  /\ dequeued' = Append(dequeued, Head(job_queue))
  /\ UNCHANGED << lock, exp, fs, report, diar, heap, jobs, job_queue, completed_queue, workers, is_running, model,
                  adder, outcome, held >>

\* a get that hands over the id put on the queue last
WorkerGet_Last(t) ==
  /\ w[t].pc = "get"
  /\ job_queue # << >>
  /\ w' = [w EXCEPT ![t].pc = "begin", ![t].job_id = job_queue[Len(job_queue)]]
  /\ job_queue' = SubSeq(job_queue, 1, Len(job_queue) - 1)
  /\ dequeued' = Append(dequeued, job_queue[Len(job_queue)])
  /\ UNCHANGED << lock, exp, fs, report, diar, heap, jobs, completed_queue, workers, is_running, model, adder, outcome, held >>

\* line 85: job_queue.get(timeout=1) hands over the head of the queue
WorkerGet(t) ==
  /\ w[t].pc = "get"
  /\ job_queue # << >>
  /\ w' = [w EXCEPT ![t].pc = "begin", ![t].job_id = Head(job_queue)]
  /\ job_queue' = Tail(job_queue)
  /\ dequeued' = Append(dequeued, Head(job_queue))
  /\ UNCHANGED << lock, exp, fs, report, diar, heap, jobs, completed_queue, workers, is_running, model, adder, outcome, held >>

\* a get without a timeout: on an empty queue the worker waits on
WorkerTimeout_Never(t) ==
  /\ w[t].pc = "get"
  /\ job_queue = << >>
  /\ UNCHANGED vars

\* lines 88-89: the wait times out on an empty queue (queue.Empty), continue
WorkerTimeout(t) ==
  /\ w[t].pc = "get"
  /\ job_queue = << >>
  /\ w' = [w EXCEPT ![t].pc = "loop"]
  /\ UNCHANGED << lock, exp, fs, report, diar, heap, jobs, job_queue, completed_queue, workers, is_running, model,
                  adder, dequeued, outcome, held >>

(* ----------------------------- _process_job ---------------------------- *)
\* lines 100-103: progress_callback(pct, msg), under the lock
progress_callback(h, job, pct, msg) ==
  [h EXCEPT ![job].progress = pct, ![job].metadata.status_message = Some(msg)]

\* a worker step that changes nothing but the worker itself
WorkerOnly(t, pc) ==
  /\ w' = [w EXCEPT ![t].pc = pc]
  /\ UNCHANGED << lock, exp, fs, report, diar, heap, jobs, job_queue, completed_queue, workers, is_running, model,
                  adder, dequeued, outcome, held >>

\* an exception that no handler catches: it ends the worker thread
Raise_Escapes(t, msg) ==
  /\ w' = [w EXCEPT ![t].pc = "exited", ![t].exc = msg]
  /\ outcome' = [outcome EXCEPT ![w[t].job] = "raised"]
  /\ UNCHANGED << lock, exp, fs, report, diar, heap, jobs, job_queue, completed_queue, workers, is_running, model,
                  adder, dequeued, held >>

\* an exception is raised inside the try block: control moves to the handler
Raise(t, msg) ==
  /\ w' = [w EXCEPT ![t].pc = "except", ![t].exc = msg]
  /\ outcome' = [outcome EXCEPT ![w[t].job] = "raised"]
  /\ UNCHANGED << lock, exp, fs, report, diar, heap, jobs, job_queue, completed_queue, workers, is_running, model,
                  adder, dequeued, held >>

\* a progress milestone is emitted and the worker moves on
Milestone(t, pct, msg, pc) ==
  /\ heap' = progress_callback(heap, w[t].job, pct, msg)
  /\ w' = [w EXCEPT ![t].pc = pc]
  /\ WithLock(ThreadName(t))
  /\ UNCHANGED << exp, fs, report, diar, jobs, job_queue, completed_queue, workers, is_running, model,
                  adder, dequeued, outcome, held >>

\* lines 95-96
Processing(h, job) ==
  [h EXCEPT ![job].status = PROCESSING, ![job].progress = 10]

\* a worker that drops a job it finds cancelled
ProcessBegin_SkipCancelled(t) ==
  /\ w[t].pc = "begin"
  /\ WithLock(ThreadName(t))
  /\ LET job == DictGet(jobs, w[t].job_id)
     IN IF heap[job].status = CANCELLED
        THEN /\ w' = [w EXCEPT ![t] = [IdleWorker EXCEPT !.pc = "loop"]]
             /\ heap' = heap
        ELSE /\ heap' = Processing(heap, job)
             /\ w' = [w EXCEPT ![t].pc = "validate", ![t].job = job]
  /\ UNCHANGED << exp, fs, report, diar, jobs, job_queue, completed_queue, workers, is_running,
                  model, adder, dequeued, outcome, held >>

\* lines 93-96: job = self.jobs[job_id]; status = PROCESSING; progress = 10
ProcessBegin(t) ==
  /\ w[t].pc = "begin"
  /\ LET job == DictGet(jobs, w[t].job_id)
     IN /\ heap' = Processing(heap, job)
        /\ w' = [w EXCEPT ![t].pc = "validate", ![t].job = job]
  /\ WithLock(ThreadName(t))
  /\ UNCHANGED << exp, fs, report, diar, jobs, job_queue, completed_queue, workers, is_running, model,
                  adder, dequeued, outcome, held >>

\* transcribe_file lines 135-137: `if not file_path.exists()` raises
\* FileNotFoundError; the file may have disappeared since add_jobs read its size
TranscribeValidate(t) ==
  /\ w[t].pc = "validate"
  /\ \/ Raise(t, "Audio file not found")
     \/ WorkerOnly(t, "format")

\* a transcribe_file that loads the engine in every call
TranscribeFormat_AlwaysLoad(t) ==
  /\ w[t].pc = "format"
  /\ \/ /\ suffix(heap[w[t].job].file_path) \notin SUPPORTED_FORMATS
        /\ Raise(t, "Unsupported audio format")
     \/ /\ suffix(heap[w[t].job].file_path) \in SUPPORTED_FORMATS
        /\ WorkerOnly(t, "load10")

\* transcribe_file lines 139-147: a suffix outside SUPPORTED_FORMATS raises
\* ValueError; otherwise self.model is read
TranscribeFormat(t) ==
  /\ w[t].pc = "format"
  /\ \/ /\ suffix(heap[w[t].job].file_path) \notin SUPPORTED_FORMATS
        /\ Raise(t, "Unsupported audio format")
     \/ /\ suffix(heap[w[t].job].file_path) \in SUPPORTED_FORMATS
        /\ WorkerOnly(t, IF model = None THEN "load10" ELSE "cb25")

\* a load_model whose first milestone lies below the 10 written on entry
LoadModelStart_5(t) ==
  /\ w[t].pc = "load10"
  /\ heap' = [heap EXCEPT ![w[t].job].progress = 5]
  /\ w' = [w EXCEPT ![t].pc = "load"]
  /\ WithLock(ThreadName(t))
  /\ UNCHANGED << exp, fs, report, diar, jobs, job_queue, completed_queue, workers, is_running, model,
                  adder, dequeued, outcome, held >>

\* load_model lines 74-77: `import whisper` raises ImportError, or 10 is emitted
LoadModelStart(t) ==
  /\ w[t].pc = "load10"
  /\ \/ Raise(t, "Whisper is not installed")
     \/ Milestone(t, 10, "Loading Whisper model...", "load")

\* load_model line 79: self.model = whisper.load_model(...), which may raise
LoadModel(t) ==
  /\ w[t].pc = "load"
  /\ \/ Raise(t, "model load failed")
     \/ /\ model' = Some("whisper")
        /\ w' = [w EXCEPT ![t].pc = "load20"]
        /\ UNCHANGED << lock, exp, fs, report, diar, heap, jobs, job_queue, completed_queue, workers, is_running,
                        adder, dequeued, outcome, held >>

\* load_model line 82
LoadModelDone(t) ==
  /\ w[t].pc = "load20"
  /\ Milestone(t, 20, "Model loaded successfully", "cb25")

\* transcribe_file line 150
TranscribeStart(t) ==
  /\ w[t].pc = "cb25"
  /\ Milestone(t, 25, "Processing audio file...", "cb30")

\* transcribe_file line 163
TranscribeInference(t) ==
  /\ w[t].pc = "cb30"
  /\ Milestone(t, 30, "Transcribing audio...", "engine")

\* an engine call whose exception leaves transcribe_file as it is
TranscribeEngine_Bare(t) ==
  /\ w[t].pc = "engine"
  /\ \/ Raise(t, "decode error")
     \/ WorkerOnly(t, "cb70")

\* transcribe_file lines 165-171: the engine returns, or whatever it raises is
\* re-raised as RuntimeError(f"Transcription failed: {e}")
TranscribeEngine(t) ==
  /\ w[t].pc = "engine"
  /\ \/ Raise(t, "Transcription failed: " \o "decode error")
     \/ WorkerOnly(t, "cb70")

\* a pipeline that announces the speaker stage whether or not it runs it
TranscribeSegments_Always75(t) ==
  /\ w[t].pc = "cb70"
  /\ Milestone(t, 70, "Processing segments...", "cb75")

\* transcribe_file lines 168-177: 70 is emitted and the result converted
TranscribeSegments(t) ==
  /\ w[t].pc = "cb70"
  /\ Milestone(t, 70, "Processing segments...",
               IF heap[w[t].job].metadata.settings.diarize THEN "cb75" ELSE "cb95")

\* transcribe_file lines 179-180: 75 is emitted and speakers are assigned
\* (_apply_diarization catches every diarization error itself)
TranscribeDiarize(t) ==
  /\ w[t].pc = "cb75"
  /\ Milestone(t, 75, "Identifying speakers...", "cb95")

\* transcribe_file lines 183-185: 95 is emitted and the segments returned
TranscribeFinalize(t) ==
  /\ w[t].pc = "cb95"
  /\ Milestone(t, 95, "Finalizing transcription...", "export")

\* lines 114-125: os.makedirs and export_transcription write the result, or raise
ProcessExport(t) ==
  /\ w[t].pc = "export"
  /\ \/ Raise(t, "cannot write output file")
     \/ /\ w' = [w EXCEPT ![t].pc = "complete"]
        /\ outcome' = [outcome EXCEPT ![w[t].job] = "ok"]
        /\ UNCHANGED << lock, exp, fs, report, diar, heap, jobs, job_queue, completed_queue, workers, is_running,
                        model, adder, dequeued, held >>

\* a success block that sets error to the empty string instead of leaving it None
Completed_EmptyError(h, job, job_id) ==
  [h EXCEPT ![job].status = COMPLETED,
            ![job].progress = 100,
            ![job].result_path = Some(OutputFile(job_id)),
            ![job].error = Some(""),
            ![job].completed_at = Some("now")]

\* lines 128-131
Completed(h, job, job_id) ==
  [h EXCEPT ![job].status = COMPLETED,
            ![job].progress = 100,
            ![job].result_path = Some(OutputFile(job_id)),
            ![job].completed_at = Some("now")]

\* a success block that leaves a cancelled job cancelled
ProcessComplete_KeepCancelled(t) ==
  /\ w[t].pc = "complete"
  /\ heap' = IF heap[w[t].job].status = CANCELLED THEN heap
             ELSE Completed(heap, w[t].job, w[t].job_id)
  /\ w' = [w EXCEPT ![t].pc = "finally"]
  /\ WithLock(ThreadName(t))
  /\ UNCHANGED << exp, fs, report, diar, jobs, job_queue, completed_queue, workers, is_running, model,
                  adder, dequeued, outcome, held >>

\* lines 127-131: the success block, under the lock
ProcessComplete(t) ==
  /\ w[t].pc = "complete"
  /\ heap' = Completed(heap, w[t].job, w[t].job_id)
  /\ w' = [w EXCEPT ![t].pc = "finally"]
  /\ WithLock(ThreadName(t))
  /\ UNCHANGED << exp, fs, report, diar, jobs, job_queue, completed_queue, workers, is_running, model,
                  adder, dequeued, outcome, held >>

\* a handler that reports success
Failed_AsCompleted(h, job, msg) ==
  [h EXCEPT ![job].status = COMPLETED, ![job].progress = 100]

\* a handler that drops the message
Failed_NoError(h, job, msg) ==
  [h EXCEPT ![job].status = FAILED]

\* a handler that also records where the output would have gone
Failed_WithPath(h, job, msg) ==
  [h EXCEPT ![job].status = FAILED, ![job].error = Some(msg),
            ![job].result_path = Some(OutputFile(h[job].id))]

\* lines 135-136
Failed(h, job, msg) ==
  [h EXCEPT ![job].status = FAILED, ![job].error = Some(msg)]

\* a handler that pushes the completion itself, before the finally clause does
ProcessExcept_Push(t) ==
  /\ w[t].pc = "except"
  /\ heap' = Failed(heap, w[t].job, w[t].exc)
  /\ completed_queue' = Append(completed_queue, w[t].job_id)
  /\ w' = [w EXCEPT ![t].pc = "finally"]
  /\ WithLock(ThreadName(t))
  /\ UNCHANGED << exp, fs, report, diar, jobs, job_queue, workers, is_running, model,
                  adder, dequeued, outcome, held >>

\* lines 133-136: `except Exception as e`, under the lock
ProcessExcept(t) ==
  /\ w[t].pc = "except"
  /\ heap' = Failed(heap, w[t].job, w[t].exc)
  /\ w' = [w EXCEPT ![t].pc = "finally"]
  /\ WithLock(ThreadName(t))
  /\ UNCHANGED << exp, fs, report, diar, jobs, job_queue, completed_queue, workers, is_running, model,
                  adder, dequeued, outcome, held >>

\* lines 138-139 and 87: completed_queue.put(job_id); task_done(); next iteration
ProcessFinally(t) ==
  /\ w[t].pc = "finally"
  /\ completed_queue' = Append(completed_queue, w[t].job_id)
  /\ w' = [w EXCEPT ![t] = [IdleWorker EXCEPT !.pc = "loop"]]
  /\ UNCHANGED << lock, exp, fs, report, diar, heap, jobs, job_queue, workers, is_running, model, adder,
                  dequeued, outcome, held >>

_process_job(t) ==
  \/ ProcessBegin(t)
  \/ TranscribeValidate(t)
  \/ TranscribeFormat(t)
  \/ LoadModelStart(t)
  \/ LoadModel(t)
  \/ LoadModelDone(t)
  \/ TranscribeStart(t)
  \/ TranscribeInference(t)
  \/ TranscribeEngine(t)
  \/ TranscribeSegments(t)
  \/ TranscribeDiarize(t)
  \/ TranscribeFinalize(t)
  \/ ProcessExport(t)
  \/ ProcessComplete(t)
  \/ ProcessExcept(t)
  \/ ProcessFinally(t)

Worker(t) == WorkerLoop(t) \/ WorkerGet(t) \/ WorkerTimeout(t) \/ _process_job(t)

\* add_jobs with its file_paths argument drawn from `lists`
AddJobs(c, lists) ==
  \/ \E file_paths \in lists, settings \in SettingsSet : AddJobsCall(c, file_paths, settings)
  \/ AddJobsCompute(c)
  \/ AddJobsRaise(c)
  \/ AddJobsInsert(c)
  \/ AddJobsReturn(c)

add_jobs(c) == AddJobs(c, PathLists)

(* ------------------- the speaker stage of transcribe_file ------------- *)
Max2(a, b) == IF a >= b THEN a ELSE b
Min2(a, b) == IF a <= b THEN a ELSE b

\* a pause heuristic that switches the speaker already at the threshold
_simple_speaker_assignment_AtThreshold(segments) ==
  LET current_speaker[i \in 1..Len(segments)] ==
        IF i = 1 THEN 1
        ELSE IF segments[i].start - segments[i - 1].end >= pause_threshold
             THEN 3 - current_speaker[i - 1]
             ELSE current_speaker[i - 1]
  IN [i \in 1..Len(segments) |->
        [segments[i] EXCEPT !.speaker = "Speaker " \o ToString(current_speaker[i])]]

\* _simple_speaker_assignment: the first segment is "Speaker 1"; the speaker
\* switches between 1 and 2 wherever the gap to the previous segment exceeds
\* pause_threshold
_simple_speaker_assignment(segments) ==
  LET current_speaker[i \in 1..Len(segments)] ==
        IF i = 1 THEN 1
        ELSE IF segments[i].start - segments[i - 1].end > pause_threshold
             THEN 3 - current_speaker[i - 1]
             ELSE current_speaker[i - 1]
  IN [i \in 1..Len(segments) |->
        [segments[i] EXCEPT !.speaker = "Speaker " \o ToString(current_speaker[i])]]

\* transcribe_file lines 176-179 with diarize = True: 75 is emitted
DiarizeStart ==
  /\ diar.pc = "cb75"
  /\ diar' = [diar EXCEPT !.pc = "load", !.emitted = Append(@, 75)]
  /\ UNCHANGED << lock, exp, fs, heap, jobs, job_queue, completed_queue, workers, is_running, model, w,
                  adder, held, report, dequeued, outcome >>

\* _load_diarization_pipeline and lines 229-233: the pipeline is loaded, or the
\* import or the load raises and the pipeline stays None
LoadDiarization ==
  /\ diar.pc = "load"
  /\ \/ diar' = [diar EXCEPT !.pc = "run", !.pipeline = Some("pyannote")]
     \/ diar' = [diar EXCEPT !.pc = "fallback", !.pipeline = None]
  /\ UNCHANGED << lock, exp, fs, heap, jobs, job_queue, completed_queue, workers, is_running, model, w,
                  adder, held, report, dequeued, outcome >>

\* line 238: the pipeline runs on the audio and yields its turns, or raises
RunDiarization ==
  /\ diar.pc = "run"
  /\ \/ \E turns \in TurnLists : diar' = [diar EXCEPT !.pc = "segment", !.turns = turns, !.i = 1]
     \/ diar' = [diar EXCEPT !.pc = "fallback"]
  /\ UNCHANGED << lock, exp, fs, heap, jobs, job_queue, completed_queue, workers, is_running, model, w,
                  adder, held, report, dequeued, outcome >>

\* lines 241-243 and 261: the next segment is taken up, or the loop is over and
\* the segments are returned
NextSegment ==
  /\ diar.pc = "segment"
  /\ IF diar.i > Len(diar.segments)
     THEN diar' = [diar EXCEPT !.pc = "cb95"]
     ELSE diar' = [diar EXCEPT !.pc = "turn", !.j = 1,
                               !.best_speaker = "Speaker 1", !.best_overlap = 0]
  /\ UNCHANGED << lock, exp, fs, heap, jobs, job_queue, completed_queue, workers, is_running, model, w,
                  adder, held, report, dequeued, outcome >>

\* a turn loop that lets a later turn of equal overlap take the segment
NextTurn_LastWins ==
  /\ diar.pc = "turn"
  /\ \/ /\ diar.j <= Len(diar.turns)
        /\ LET segment == diar.segments[diar.i]
               turn == diar.turns[diar.j]
               overlap == Max2(0, Min2(segment.end, turn.end) - Max2(segment.start, turn.start))
           IN diar' = IF overlap >= diar.best_overlap
                      THEN [diar EXCEPT !.j = @ + 1, !.best_overlap = overlap,
                                        !.best_speaker = turn.speaker]
                      ELSE [diar EXCEPT !.j = @ + 1]
     \/ /\ diar.j > Len(diar.turns)
        /\ diar' = [diar EXCEPT !.pc = "segment", !.i = @ + 1,
                                !.segments[diar.i].speaker = diar.best_speaker]
     \/ diar' = [diar EXCEPT !.pc = "fallback"]
  /\ UNCHANGED << lock, exp, fs, heap, jobs, job_queue, completed_queue, workers, is_running, model, w,
                  adder, held, report, dequeued, outcome >>

\* lines 245-255: itertracks yields the next turn and its overlap with the
\* segment is weighed, or it is exhausted and the segment gets its speaker, or
\* it raises
NextTurn ==
  /\ diar.pc = "turn"
  /\ \/ /\ diar.j <= Len(diar.turns)
        /\ LET segment == diar.segments[diar.i]
               turn == diar.turns[diar.j]
               overlap_start == Max2(segment.start, turn.start)
               overlap_end == Min2(segment.end, turn.end)
               overlap == Max2(0, overlap_end - overlap_start)
           IN diar' = IF overlap > diar.best_overlap
                      THEN [diar EXCEPT !.j = @ + 1, !.best_overlap = overlap,
                                        !.best_speaker = turn.speaker]
                      ELSE [diar EXCEPT !.j = @ + 1]
     \/ /\ diar.j > Len(diar.turns)
        /\ diar' = [diar EXCEPT !.pc = "segment", !.i = @ + 1,
                                !.segments[diar.i].speaker = diar.best_speaker]
     \/ diar' = [diar EXCEPT !.pc = "fallback"]
  /\ UNCHANGED << lock, exp, fs, heap, jobs, job_queue, completed_queue, workers, is_running, model, w,
                  adder, held, report, dequeued, outcome >>

\* a fallback that hands the segments back as the loop left them
DiarizationFallback_Keep ==
  /\ diar.pc = "fallback"
  /\ diar' = [diar EXCEPT !.pc = "cb95", !.fallback = TRUE]
  /\ UNCHANGED << lock, exp, fs, heap, jobs, job_queue, completed_queue, workers, is_running, model, w,
                  adder, held, report, dequeued, outcome >>

\* lines 231-233 and 257-259: return self._simple_speaker_assignment(segments)
DiarizationFallback ==
  /\ diar.pc = "fallback"
  /\ diar' = [diar EXCEPT !.pc = "cb95", !.fallback = TRUE,
                          !.segments = _simple_speaker_assignment(diar.segments)]
  /\ UNCHANGED << lock, exp, fs, heap, jobs, job_queue, completed_queue, workers, is_running, model, w,
                  adder, held, report, dequeued, outcome >>

\* transcribe_file lines 182-185: 95 is emitted and the segments are returned
DiarizeReturn ==
  /\ diar.pc = "cb95"
  /\ diar' = [diar EXCEPT !.pc = "done", !.emitted = Append(@, 95),
                          !.returned = Some(diar.segments)]
  /\ UNCHANGED << lock, exp, fs, heap, jobs, job_queue, completed_queue, workers, is_running, model, w,
                  adder, held, report, dequeued, outcome >>

_apply_diarization ==
  \/ LoadDiarization
  \/ RunDiarization
  \/ NextSegment
  \/ NextTurn
  \/ DiarizationFallback

(* ------------------------- export_transcription ----------------------- *)
\* Times of exported segments are written in whole milliseconds: t stands for
\* the double nearest to t/1000 seconds.

\* times whose double lies just under the decimal value, so that
\* int((seconds % 1) * 1000) yields one millisecond less (1.001 % 1 is
\* 0.00099999999999989, 3599.999 % 1 is 0.99899999999979627)
TruncatedBelow == {1001, 3599999}
\* <<start, end>> of the exported segments, in milliseconds; the last one ends
\* at one hundred hours
ExportIntervals ==
  { <<0, 1000>>, <<1000, 2000>>, <<1001, 59999>>, <<3599999, 360000000>> }
\* segment texts: the last one holds a blank line followed by what reads as
\* the head of a subtitle block
ExportTexts == { "x", "y", "x\n\n2\n00:00:01,000 --> 00:00:02,000\ny" }
\* the speakers of exported segments
ExportSpeakers == {"Speaker 1", "Speaker 2"}
\* TranscriptionSegment(start, end, text, speaker), confidence = 1.0 (written
\* in hundredths), words = []
ExportedSegments ==
  { [start |-> iv[1], end |-> iv[2], text |-> text, speaker |-> speaker,
     confidence |-> 100, words |-> << >>] :
      iv \in ExportIntervals, text \in ExportTexts, speaker \in ExportSpeakers }
\* the `segments` argument of export_transcription: segments in time order
\* that do not overlap
ExportedLists ==
  { q \in UNION { [1..n -> ExportedSegments] : n \in 0..MaxExported } :
      \A i \in 1..(Len(q) - 1) : q[i].end <= q[i + 1].start }
\* the `format` argument: the five formats, some in other letter cases, and
\* values that are none of them
ExportFormats == {"json", "JSON", "txt", "Txt", "srt", "SRT", "vtt", "csv", "xml", "XML"}
\* the `output_path` argument, <<parent directory, file name>>
OutputPaths == { <<"out", "t.out">>, <<"new/dir", "t.out">> }
\* what a file written earlier holds
OldContent == [kind |-> "text", text |-> "old"]
\* the file system before the call: the directory "out" exists, empty or with
\* a file at the output path and another file next to it
FileSystems ==
  { [dirs |-> {"out"}, files |-> {}],
    [dirs |-> {"out"},
     files |-> { [path |-> <<"out", "t.out">>, content |-> OldContent],
                 [path |-> <<"out", "other">>, content |-> OldContent] }] }

\* export_transcription(..., include_metadata: bool = True); no caller passes it
include_metadata == TRUE

\* f"{k:02d}" and f"{k:03d}": at least two (three) digits, more when k needs them
Pad2(k) == IF k < 10 THEN "0" \o ToString(k) ELSE ToString(k)
Pad3(k) == IF k < 10 THEN "00" \o ToString(k)
           ELSE IF k < 100 THEN "0" \o ToString(k) ELSE ToString(k)

\* int(seconds // 3600)
hours(t) == t \div 3600000
\* int((seconds % 3600) // 60)
minutes(t) == (t % 3600000) \div 60000
\* int(seconds % 60)
secs(t) == (t % 60000) \div 1000
\* int((seconds % 1) * 1000): the fraction of the double, truncated
millis(t) == IF t \in TruncatedBelow THEN (t % 1000) - 1 ELSE t % 1000

\* f"{hours:02d}:{minutes:02d}:{secs:02d},{millis:03d}"
_format_timestamp_srt(t) ==
  Pad2(hours(t)) \o ":" \o Pad2(minutes(t)) \o ":" \o Pad2(secs(t)) \o "," \o Pad3(millis(t))
\* f"{hours:02d}:{minutes:02d}:{secs:02d}.{millis:03d}"
_format_timestamp_vtt(t) ==
  Pad2(hours(t)) \o ":" \o Pad2(minutes(t)) \o ":" \o Pad2(secs(t)) \o "." \o Pad3(millis(t))
\* f"{x:.2f}" of a time, which rounds to hundredths (none of the times lies
\* halfway between two hundredths)
Fixed2(t) ==
  LET c == (t + 5) \div 10 IN ToString(c \div 100) \o "." \o Pad2(c % 100)

\* _export_srt lines 370-376: the blocks of segments i, i + 1, ...
RECURSIVE SrtBlocks(_, _)
SrtBlocks(segments, i) ==
  IF i > Len(segments) THEN ""
  ELSE LET seg == segments[i]
           start_time == _format_timestamp_srt(seg.start)
           end_time == _format_timestamp_srt(seg.end)
       IN ToString(i) \o "\n"
            \o start_time \o " --> " \o end_time \o "\n"
            \o seg.text \o "\n\n"
            \o SrtBlocks(segments, i + 1)
\* what _export_srt writes to the file
_export_srt(segments) == SrtBlocks(segments, 1)

\* _export_vtt lines 383-389
RECURSIVE VttBlocks(_, _)
VttBlocks(segments, i) ==
  IF i > Len(segments) THEN ""
  ELSE LET seg == segments[i]
           start_time == _format_timestamp_vtt(seg.start)
           end_time == _format_timestamp_vtt(seg.end)
       IN ToString(i) \o "\n"
            \o start_time \o " --> " \o end_time \o "\n"
            \o "<v " \o seg.speaker \o ">" \o seg.text \o "\n\n"
            \o VttBlocks(segments, i + 1)
\* what _export_vtt writes to the file
_export_vtt(segments) == "WEBVTT\n\n" \o VttBlocks(segments, 1)

\* a loop that writes the header and never notes the speaker it wrote
RECURSIVE TextLines_Forgetful(_, _, _)
TextLines_Forgetful(segments, i, current_speaker) ==
  IF i > Len(segments) THEN ""
  ELSE LET seg == segments[i]
           changed == include_metadata /\ Some(seg.speaker) # current_speaker
       IN (IF changed THEN "\n[" \o seg.speaker \o "]\n" ELSE "")
            \o seg.text \o "\n"
            \o TextLines_Forgetful(segments, i + 1, current_speaker)

\* _export_text lines 360-365: the loop from segment i on, with current_speaker
\* as the loop has left it
RECURSIVE TextLines(_, _, _)
TextLines(segments, i, current_speaker) ==
  IF i > Len(segments) THEN ""
  ELSE LET seg == segments[i]
           changed == include_metadata /\ Some(seg.speaker) # current_speaker
       IN (IF changed THEN "\n[" \o seg.speaker \o "]\n" ELSE "")
            \o seg.text \o "\n"
            \o TextLines(segments, i + 1,
                         IF changed THEN Some(seg.speaker) ELSE current_speaker)
\* what _export_text writes to the file; current_speaker = None at first
_export_text(segments) == TextLines(segments, 1, None)

\* TranscriptionSegment.to_dict: asdict(self), a dict of the six fields
to_dict(seg) ==
  [start |-> seg.start, end |-> seg.end, text |-> seg.text, speaker |-> seg.speaker,
   confidence |-> seg.confidence, words |-> seg.words]

\* list(set(...)): the elements of the set, each once, in an order the
\* interpreter chooses
Listings(S) ==
  { q \in [1..Cardinality(S) -> S] : { q[i] : i \in 1..Cardinality(S) } = S }

\* a document whose speakers list has one entry per segment
_export_json_PerSegment(segments, speakers) ==
  [ segments |-> [i \in 1..Len(segments) |-> to_dict(segments[i])],
    metadata |-> [ total_segments |-> Len(segments),
                   total_duration |-> IF segments # << >> THEN segments[Len(segments)].end ELSE 0,
                   speakers |-> [i \in 1..Len(segments) |-> segments[i].speaker] ] ]

\* _export_json lines 338-345: the document handed to json.dump, `speakers`
\* being the listing of the speaker set
_export_json(segments, speakers) ==
  [ segments |-> [i \in 1..Len(segments) |-> to_dict(segments[i])],
    metadata |-> [ total_segments |-> Len(segments),
                   total_duration |-> IF segments # << >> THEN segments[Len(segments)].end ELSE 0,
                   speakers |-> speakers ] ]

\* _export_csv lines 396-406: the header row and one row per segment
_export_csv(segments) ==
  << << "Start", "End", "Speaker", "Text", "Confidence" >> >>
    \o [i \in 1..Len(segments) |->
          << Fixed2(segments[i].start), Fixed2(segments[i].end), segments[i].speaker,
             segments[i].text, Fixed2(segments[i].confidence * 10) >>]

\* open(output_path, 'w') and the writes: the file at `path` holds `content`,
\* whatever it held before; every other file is left alone
Written(files, path, content) ==
  { f \in files : f.path # path } \cup { [path |-> path, content |-> content] }

\* str(output_path)
str(path) == path[1] \o "/" \o path[2]

\* lines 311-312: Path(output_path).parent.mkdir(parents=True, exist_ok=True)
ExportMkdir ==
  /\ exp.pc = "mkdir"
  /\ fs' = [fs EXCEPT !.dirs = @ \cup {exp.output_path[1]}]
  /\ exp' = [exp EXCEPT !.pc = "lower"]
  /\ UNCHANGED << heap, jobs, job_queue, completed_queue, workers, is_running, model,
                  w, adder, held, report, diar, lock, dequeued, outcome >>

\* a call that takes the format as it is written
ExportLower_AsGiven ==
  /\ exp.pc = "lower"
  /\ exp' = [exp EXCEPT !.pc = "dispatch", !.format = exp.given]
  /\ UNCHANGED << heap, jobs, job_queue, completed_queue, workers, is_running, model,
                  w, adder, held, report, diar, lock, fs, dequeued, outcome >>

\* line 314: format = format.lower()
ExportLower ==
  /\ exp.pc = "lower"
  /\ exp' = [exp EXCEPT !.pc = "dispatch", !.format = lower(exp.given)]
  /\ UNCHANGED << heap, jobs, job_queue, completed_queue, workers, is_running, model,
                  w, adder, held, report, diar, lock, fs, dequeued, outcome >>

\* lines 316-325: the exporter of the format writes the file at output_path
ExportWrite ==
  /\ exp.pc = "dispatch"
  /\ exp.format \in {"json", "txt", "srt", "vtt", "csv"}
  /\ \E speakers \in Listings({ exp.segments[i].speaker : i \in 1..Len(exp.segments) }) :
       LET content ==
             CASE exp.format = "json" ->
                    [kind |-> "json", data |-> _export_json(exp.segments, speakers)]
               [] exp.format = "txt" -> [kind |-> "text", text |-> _export_text(exp.segments)]
               [] exp.format = "srt" -> [kind |-> "text", text |-> _export_srt(exp.segments)]
               [] exp.format = "vtt" -> [kind |-> "text", text |-> _export_vtt(exp.segments)]
               [] exp.format = "csv" -> [kind |-> "csv", rows |-> _export_csv(exp.segments)]
       IN fs' = [fs EXCEPT !.files = Written(@, exp.output_path, content)]
  /\ exp' = [exp EXCEPT !.pc = "return"]
  /\ UNCHANGED << heap, jobs, job_queue, completed_queue, workers, is_running, model,
                  w, adder, held, report, diar, lock, dequeued, outcome >>

\* lines 326-327: raise ValueError(f"Unsupported export format: {format}")
ExportUnsupported ==
  /\ exp.pc = "dispatch"
  /\ exp.format \notin {"json", "txt", "srt", "vtt", "csv"}
  /\ exp' = [exp EXCEPT !.pc = "raised",
                        !.raised = Some("Unsupported export format: " \o exp.format)]
  /\ UNCHANGED << heap, jobs, job_queue, completed_queue, workers, is_running, model,
                  w, adder, held, report, diar, lock, fs, dequeued, outcome >>

\* line 329: return str(output_path)
ExportReturn ==
  /\ exp.pc = "return"
  /\ exp' = [exp EXCEPT !.pc = "done", !.returned = Some(str(exp.output_path))]
  /\ UNCHANGED << heap, jobs, job_queue, completed_queue, workers, is_running, model,
                  w, adder, held, report, diar, lock, fs, dequeued, outcome >>

export_transcription ==
  \/ ExportMkdir
  \/ ExportLower
  \/ ExportWrite
  \/ ExportUnsupported
  \/ ExportReturn

\* the ids a caller passes: those of the table and one that is not in it
KnownOrNot == DictKeys(jobs) \cup {"job_x"}

Next ==
  \/ \E c \in Callers : add_jobs(c)
  \/ StartOnce
  \/ stop
  \/ \E job_id \in KnownOrNot : cancel_job(job_id)
  \/ \E t \in Threads : Worker(t)

Spec == Init /\ [][Next]_vars

\* The scheduler with a caller that reads the table between the other operations
\* (the GUI's polling thread); the pool is not stopped.
ReadNext ==
  \/ \E c \in Callers : add_jobs(c)
  \/ StartOnce
  \/ \E job_id \in KnownOrNot : cancel_job(job_id)
  \/ \E t \in Threads : Worker(t)
  \/ \E job_id \in KnownOrNot : get_job_status(job_id)
  \/ get_all_jobs

ReadSpec == Init /\ [][ReadNext]_vars

\* The pool started and never stopped, no cancel_job call; every thread that has
\* been started keeps being scheduled.
LiveNext ==
  \/ \E c \in Callers : add_jobs(c)
  \/ StartOnce
  \/ \E t \in Threads : Worker(t)

LiveSpec ==
  /\ Init
  /\ [][LiveNext]_vars
  /\ WF_vars(StartOnce)
  /\ \A t \in Threads : WF_vars(Worker(t))

\* The pool at work while another thread writes the batch report.
ReportNext ==
  \/ \E c \in Callers : add_jobs(c)
  \/ StartOnce
  \/ \E t \in Threads : Worker(t)
  \/ export_batch_report

ReportSpec == Init /\ [][ReportNext]_vars

\* The pool at work on a wider choice of files: equal basenames in two
\* directories and a suffix written in upper case.
WideNext ==
  \/ \E c \in Callers : AddJobs(c, WidePathLists)
  \/ StartOnce
  \/ \E t \in Threads : Worker(t)

WideSpec == Init /\ [][WideNext]_vars

\* The scheduler with start_workers called whenever a caller chooses to.
PoolNext ==
  \/ \E c \in Callers : add_jobs(c)
  \/ start_workers
  \/ \E t \in Threads : Worker(t)

PoolSpec == Init /\ [][PoolNext]_vars

\* One transcribe_file call with diarize = True, on a new TranscriptionSystem,
\* from the point where the engine has handed over its segments.
DiarInit ==
  /\ heap = << >>
  /\ jobs = << >>
  /\ job_queue = << >>
  /\ completed_queue = << >>
  /\ workers = << >>
  /\ is_running = FALSE
  /\ model = Some("whisper")
  /\ w = [t \in Threads |-> IdleWorker]
  /\ adder = [c \in AllCallers |-> IdleAdder]
  /\ held = None
  /\ report = IdleReport
  /\ lock = {}
  /\ exp = IdleExport
  /\ fs = EmptyFs
  /\ dequeued = << >>
  /\ outcome = << >>
  /\ \E segments \in SegmentLists \cup PausedSegmentLists :
       diar = [IdleDiar EXCEPT !.pc = "cb75", !.given = segments, !.segments = segments]

DiarNext ==
  \/ DiarizeStart
  \/ _apply_diarization
  \/ DiarizeReturn

DiarSpec == DiarInit /\ [][DiarNext]_vars

\* The pool started once and stopped at any time, no cancel_job call; every
\* thread that has been started keeps being scheduled.
StopNext ==
  \/ \E c \in Callers : add_jobs(c)
  \/ StartOnce
  \/ stop
  \/ \E t \in Threads : Worker(t)

StopSpec ==
  /\ Init
  /\ [][StopNext]_vars
  /\ \A t \in Threads : WF_vars(Worker(t))

\* a worker is about to enter one of the `with self.lock:` blocks of
\* _process_job, or the one inside progress_callback
AtLockBlock(t) ==
  w[t].pc \in {"begin", "load20", "cb25", "cb30", "cb70", "cb75", "cb95", "complete", "except"}

\* a worker takes self.lock and has yet to run the body of its block
WorkerAcquire(t) ==
  /\ AtLockBlock(t)
  /\ Acquire(ThreadName(t))

\* add_jobs line 61: the caller takes self.lock and has yet to insert the job
AddJobsAcquire(c) ==
  /\ adder[c].pc = "insert"
  /\ Acquire(c)

\* The scheduler with self.lock taken in a step of its own: between a thread's
\* acquire and the body of its block the other threads run on, and wait at
\* their own blocks.
LockNext ==
  \/ \E c \in Callers : add_jobs(c)
  \/ \E c \in Callers : AddJobsAcquire(c)
  \/ StartOnce
  \/ \E job_id \in KnownOrNot : cancel_job(job_id)
  \/ \E t \in Threads : Worker(t)
  \/ \E t \in Threads : WorkerAcquire(t)

LockSpec == Init /\ [][LockNext]_vars

\* One export_transcription call on a TranscriptionSystem: any of the segment
\* lists, formats and output paths, on a file system that takes every write.
ExportInit ==
  /\ heap = << >>
  /\ jobs = << >>
  /\ job_queue = << >>
  /\ completed_queue = << >>
  /\ workers = << >>
  /\ is_running = FALSE
  /\ model = None
  /\ w = [t \in Threads |-> IdleWorker]
  /\ adder = [c \in AllCallers |-> IdleAdder]
  /\ held = None
  /\ report = IdleReport
  /\ diar = IdleDiar
  /\ lock = {}
  /\ dequeued = << >>
  /\ outcome = << >>
  /\ fs \in FileSystems
  /\ \E segments \in ExportedLists, format \in ExportFormats, output_path \in OutputPaths :
       exp = [IdleExport EXCEPT !.pc = "mkdir", !.segments = segments, !.given = format,
                                !.output_path = output_path]

ExportNext == export_transcription

ExportSpec == ExportInit /\ [][ExportNext]_vars

\* The pool with its first worker alone at work, on the wider choice of files:
\* its transcribe_file calls follow one another on the one pipeline instance.
SerialNext ==
  \/ \E c \in Callers : AddJobs(c, WidePathLists)
  \/ StartOnce
  \/ Worker(1)

SerialSpec == Init /\ [][SerialNext]_vars

\* Two threads call add_jobs on one scheduler at the same time; the pool is
\* not started.
ConcurrentNext ==
  \E c \in AllCallers : add_jobs(c)

ConcurrentSpec == Init /\ [][ConcurrentNext]_vars

\* cancel_job called on a job that is still Pending
CancelPending(job_id) ==
  /\ DictHas(jobs, job_id)
  /\ heap[DictGet(jobs, job_id)].status = PENDING
  /\ cancel_job(job_id)

\* The pool started and never stopped, with jobs cancelled while they are
\* Pending; every thread that has been started keeps being scheduled.
CancelPendingNext ==
  \/ \E c \in Callers : add_jobs(c)
  \/ StartOnce
  \/ \E job_id \in DictKeys(jobs) : CancelPending(job_id)
  \/ \E t \in Threads : Worker(t)

CancelPendingSpec ==
  /\ Init
  /\ [][CancelPendingNext]_vars
  /\ WF_vars(StartOnce)
  /\ \A t \in Threads : WF_vars(Worker(t))

\* The same, with every started worker and the caller of add_jobs kept
\* scheduled.
LockLiveSpec ==
  /\ Init
  /\ [][LockNext]_vars
  /\ \A t \in Threads : WF_vars(Worker(t))
  /\ \A c \in Callers : WF_vars(add_jobs(c))

(* ============================== properties ============================= *)
Addrs == 1..Len(heap)
Range(q) == { q[i] : i \in 1..Len(q) }
Count(q, x) == Cardinality({ i \in 1..Len(q) : q[i] = x })
\* the worker is inside _process_job
InProcess(t) == w[t].pc \notin {"unborn", "loop", "get", "exited"}
\* the worker is inside the try block of _process_job
InTry(t) == w[t].pc \in {"validate", "format", "load10", "load", "load20", "cb25", "cb30",
                         "engine", "cb70", "cb75", "cb95", "export", "complete"}
\* the job at address a is changed by a step of some worker that owns it
ByWorker(a) == \E t \in Threads : w[t].pc # w'[t].pc /\ w'[t].job = a

\* the status changes the state machine of the specification lists
ListedChange(from, to) ==
  \/ << from, to >> \in { << PENDING, PROCESSING >>, << PROCESSING, COMPLETED >>,
                          << PROCESSING, FAILED >> }
  \/ to = CANCELLED
\* a worker's write over a status that cancel_job has set meanwhile
OverCancelled(from, to) ==
  from = CANCELLED /\ to \in {PROCESSING, COMPLETED, FAILED}

\* C1 as stated: every status change is Pending -> Processing, Processing ->
\* Completed, Processing -> Failed, or any status -> Cancelled.
C1_ListedOnly ==
  [][\A a \in Addrs : heap'[a].status # heap[a].status
        => ListedChange(heap[a].status, heap'[a].status)]_vars

\* C1 (amended): every status change is Pending or Cancelled -> Processing,
\* Processing or Cancelled -> Completed, Processing or Cancelled -> Failed, each
\* made by the worker that owns the job, or any status -> Cancelled.
C1_Transitions ==
  [][\A a \in Addrs : heap'[a].status # heap[a].status
        => \/ heap'[a].status = CANCELLED /\ ~ByWorker(a)
           \/ /\ heap'[a].status # CANCELLED
              /\ ByWorker(a)
              /\ \/ ListedChange(heap[a].status, heap'[a].status)
                 \/ OverCancelled(heap[a].status, heap'[a].status)]_vars

\* a worker is about to write the final status of a job that was cancelled
\* while it was being processed
C1_Witness ==
  \E t \in Threads : w[t].pc \in {"complete", "except"} /\ heap[w[t].job].status = CANCELLED

\* C2: every id put on the job queue is in the queue or has been taken off, it is
\* taken off at most once and never put back, it is then owned by exactly one
\* worker until its completion is pushed, and no two workers are inside
\* _process_job for the same id.
C2_ExactlyOnce ==
  /\ \A i, j \in 1..Len(dequeued) : dequeued[i] = dequeued[j] => i = j
  /\ \A i, j \in 1..Len(job_queue) : job_queue[i] = job_queue[j] => i = j
  /\ Range(job_queue) \cap Range(dequeued) = {}
  /\ Range(job_queue) \cup Range(dequeued) = DictKeys(jobs)
  /\ \A id \in Range(dequeued) :
       Cardinality({ t \in Threads : w[t].job_id = id }) + Count(completed_queue, id) = 1
  /\ \A t, u \in Threads :
       t # u /\ InProcess(t) /\ InProcess(u) => w[t].job_id # w[u].job_id

\* two workers are inside _process_job at the same time
C2_Witness ==
  \E t, u \in Threads : t # u /\ InTry(t) /\ InTry(u)

\* the job with this id is in the table and its worker has written its outcome
Ended(id) == DictHas(jobs, id) /\ heap[DictGet(jobs, id)].status \in {COMPLETED, FAILED}

\* C3: with the pool started and never stopped and no cancel_job call, every job
\* in the table eventually is Completed or Failed and then keeps that status; it
\* is Completed only if transcription and export returned, Failed only if one of
\* them raised.
C3_EveryJobEnds ==
  /\ \A id \in AllIds :
       DictHas(jobs, id) ~> Ended(id)
  /\ [][\A a \in Addrs : heap[a].status \in {COMPLETED, FAILED}
                           => heap'[a].status = heap[a].status]_vars
  /\ [](\A a \in Addrs : /\ heap[a].status = COMPLETED => outcome[a] = "ok"
                         /\ heap[a].status = FAILED => outcome[a] = "raised")

\* the pool is idle again after one job completed and one failed
C3_Witness ==
  /\ \E a, b \in Addrs : heap[a].status = COMPLETED /\ heap[b].status = FAILED
  /\ job_queue = << >>
  /\ workers # << >>
  /\ \A t \in Range(workers) : w[t].pc \in {"loop", "get"}

\* a step of worker t on the failure path: the raise, or the handler
FailureStep(t) ==
  \/ InTry(t) /\ w'[t].pc = "except"
  \/ w[t].pc = "except" /\ w'[t].pc = "finally"

\* C4: a step in which a job's transcription or export raises, or in which the
\* handler records it, changes no other job, no other worker, the table, the
\* queue or the running flag; a worker thread ends only at the loop test with
\* the running flag cleared, and after the finally clause it is back at the loop.
C4_Isolated ==
  [][\A t \in Threads :
       /\ FailureStep(t)
            => /\ Len(heap') = Len(heap)
               /\ \A a \in Addrs : a # w[t].job => heap'[a] = heap[a]
               /\ \A u \in Threads : u # t => w'[u] = w[u]
               /\ jobs' = jobs /\ job_queue' = job_queue /\ is_running' = is_running
       /\ (w'[t].pc = "exited" /\ w[t].pc # "exited") => (w[t].pc = "loop" /\ ~is_running)
       /\ (w[t].pc = "finally" /\ w'[t].pc # "finally") => w'[t].pc = "loop"]_vars

\* after a job failed and its completion was pushed, a worker is waiting for
\* the next job while the other one is still transcribing
C4_Witness ==
  \E a \in Addrs, t, u \in Threads :
    /\ outcome[a] = "raised" /\ heap[a].id \in Range(completed_queue)
    /\ t # u /\ w[t].pc \in {"loop", "get"} /\ InTry(u)

\* C5: the step that leaves the except handler goes to the finally clause and
\* leaves the job Failed, with error equal to the message of the exception and
\* result_path unset; every raise inside the try block lands in that handler.
C5_FailureRecorded ==
  [][\A t \in Threads :
       /\ (w[t].pc = "except" /\ w'[t].pc # "except")
            => /\ w'[t].pc = "finally"
               /\ heap'[w[t].job].status = FAILED
               /\ heap'[w[t].job].error = Some(w[t].exc)
               /\ heap'[w[t].job].result_path = None
       /\ (InTry(t) /\ outcome'[w[t].job] = "raised" /\ outcome[w[t].job] # "raised")
            => w'[t].pc = "except" /\ w'[t].exc # ""]_vars

\* a job whose output file could not be written is Failed with that message
C5_Witness ==
  \E a \in Addrs : /\ heap[a].status = FAILED
                   /\ heap[a].error = Some("cannot write output file")
                   /\ heap[a].result_path = None

\* C6: a job id is on the completion channel at most once; it is there exactly
\* once as soon as the worker that dequeued it has left _process_job; and a job
\* whose id is there is neither Pending nor Processing, its worker having
\* written Completed or Failed.
C6_CompletionOnce ==
  \A a \in Addrs :
    LET id == heap[a].id IN
      /\ Count(completed_queue, id) <= 1
      /\ id \in Range(completed_queue)
           => /\ heap[a].status \notin {PENDING, PROCESSING}
              /\ outcome[a] # "none"
              /\ \A t \in Threads : w[t].job_id # id
      /\ (id \in Range(dequeued) /\ \A t \in Threads : w[t].job_id # id)
           => Count(completed_queue, id) = 1

\* a completed and a failed job are both on the completion channel
C6_Witness ==
  \E a, b \in Addrs :
    /\ outcome[a] = "ok" /\ outcome[b] = "raised"
    /\ {heap[a].id, heap[b].id} \subseteq Range(completed_queue)

\* C7: progress stays within [0,100], never decreases, and is 100 on every
\* Completed job.
C7_Progress ==
  /\ [](\A a \in Addrs : /\ 0 <= heap[a].progress /\ heap[a].progress <= 100
                         /\ heap[a].status = COMPLETED => heap[a].progress = 100)
  /\ [][\A a \in Addrs : heap'[a].progress >= heap[a].progress]_vars

\* one job was completed by a call that initialised the engine, and a later
\* job has reached the end of the pipeline without initialising it again
C7_Witness ==
  \E a, b \in Addrs :
    /\ heap[a].status = COMPLETED /\ heap[a].progress = 100
    /\ a < b /\ heap[b].progress = 95 /\ model # None
    /\ \E t \in Threads : w[t].job = b /\ w[t].pc = "export"

\* C8 as stated: result_path is set only on a job whose status is Completed.
C8_OnlyCompleted ==
  \A a \in Addrs : heap[a].result_path # None => heap[a].status = COMPLETED

\* C8 (amended): result_path is set only on a job that is Completed, or that is
\* Cancelled after its worker completed it.
C8_ResultPath ==
  \A a \in Addrs :
    heap[a].result_path # None
      => /\ heap[a].status \in {COMPLETED, CANCELLED}
         /\ outcome[a] = "ok" /\ heap[a].completed_at # None /\ heap[a].progress = 100
         /\ heap[a].id \in Range(dequeued)

\* a job cancelled after completion still carries its result_path
C8_Witness ==
  \E a \in Addrs : heap[a].status = CANCELLED /\ heap[a].result_path # None

\* C9 as stated: error is set only on a job whose status is Failed.
C9_OnlyFailed ==
  \A a \in Addrs : heap[a].error # None => heap[a].status = FAILED

\* C9 (amended): error is set only on a job that is Failed, or that is Cancelled
\* after its worker recorded the failure.
C9_Error ==
  \A a \in Addrs :
    heap[a].error # None
      => /\ heap[a].status \in {FAILED, CANCELLED}
         /\ outcome[a] = "raised" /\ heap[a].result_path = None
         /\ heap[a].id \in Range(dequeued)

\* a job cancelled after its failure still carries its error
C9_Witness ==
  \E a \in Addrs : heap[a].status = CANCELLED /\ heap[a].error # None

\* the BatchJob objects the caller holds
HeldRefs == IF held = None THEN {} ELSE Range(held[1].refs)

\* C10: while the caller keeps what get_job_status or get_all_jobs returned, the
\* status, progress, error, result_path and metadata it sees there do not change.
C10_Snapshot ==
  [][held' = held
       => \A a \in HeldRefs :
            /\ heap'[a].status = heap[a].status
            /\ heap'[a].progress = heap[a].progress
            /\ heap'[a].error = heap[a].error
            /\ heap'[a].result_path = heap[a].result_path
            /\ heap'[a].metadata = heap[a].metadata]_vars

\* C11: a report written by export_batch_report agrees with itself: total_jobs is
\* the length of its jobs list, completed and failed are the numbers of entries of
\* that list with status completed and failed.
C11_Consistent ==
  report.pc = "done" =>
    /\ report.total_jobs = Len(report.jobs)
    /\ report.completed = Count([i \in 1..Len(report.jobs) |-> report.jobs[i].status], COMPLETED)
    /\ report.failed = Count([i \in 1..Len(report.jobs) |-> report.jobs[i].status], FAILED)

\* C12: a cancel_job(id) call for an id of the table sets that job's status to
\* Cancelled and changes nothing else: not its progress, result_path, error,
\* metadata or completed_at, no other job, not the table, the job queue, the
\* completion channel, the running flag, the pool or the engine.  For an id that
\* is not in the table the call changes nothing at all.
C12_CancelFrame ==
  [][\A job_id \in KnownOrNot :
       cancel_job(job_id) =>
         /\ heap' = IF DictHas(jobs, job_id)
                    THEN [heap EXCEPT ![DictGet(jobs, job_id)].status = CANCELLED]
                    ELSE heap
         /\ UNCHANGED << jobs, job_queue, completed_queue, workers, is_running, model,
                         w, adder, held, report, diar, dequeued, outcome >>]_vars

\* cancel_job has marked a job that a worker is in the middle of transcribing
C12_Witness ==
  \E t \in Threads :
    /\ w[t].pc = "engine"
    /\ heap[w[t].job].status = CANCELLED
    /\ heap[w[t].job].progress = 30
    /\ heap[w[t].job].metadata.status_message = Some("Transcribing audio...")

\* C13: over any sequence of add_jobs calls made one after another, the ids of
\* all jobs created are pairwise distinct, also for paths with the same
\* basename, and the table has one entry per path added.
C13_DistinctIds ==
  /\ \A a, b \in Addrs : a # b => heap[a].id # heap[b].id
  /\ Len(jobs) = Len(heap)
  /\ \A c \in Callers : \A i, j \in 1..Len(adder[c].job_ids) :
       i # j => adder[c].job_ids[i] # adder[c].job_ids[j]

\* two calls have each added one file, the two files have the same basename
C13_Witness ==
  /\ Len(heap) = 2
  /\ heap[1].file_path # heap[2].file_path
  /\ basename(heap[1].file_path) = basename(heap[2].file_path)
  /\ \E c \in Callers :
       adder[c].pc = "compute" /\ adder[c].file_paths = << >> /\ Len(adder[c].given) = 1

\* the ids put on the job queue so far, in the order they were put
Enqueued == dequeued \o job_queue

\* C14: add_jobs returns one id per path, in the order of its input; the job of
\* the i-th id has that id, the i-th path, the settings, the path's basename and
\* the file size; the ids are enqueued in the same order; a job that no worker
\* has taken yet is Pending with progress 0, no result_path and no error.
C14_AddJobs ==
  /\ \A c \in Callers :
       adder[c].pc \in {"compute", "insert"} =>
         LET n == Len(adder[c].job_ids)
         IN /\ n + Len(adder[c].file_paths) = Len(adder[c].given)
            /\ n <= Len(Enqueued)
            /\ SubSeq(Enqueued, Len(Enqueued) - n + 1, Len(Enqueued)) = adder[c].job_ids
            /\ \A i \in 1..n :
                 /\ DictHas(jobs, adder[c].job_ids[i])
                 /\ LET job == heap[DictGet(jobs, adder[c].job_ids[i])]
                    IN /\ job.id = adder[c].job_ids[i]
                       /\ job.file_path = adder[c].given[i]
                       /\ job.metadata.settings = adder[c].settings
                       /\ job.metadata.original_filename = adder[c].given[i][2] \o adder[c].given[i][3]
                       /\ job.metadata.file_size = getsize(adder[c].given[i])
  /\ \A i \in 1..Len(job_queue) :
       LET job == heap[DictGet(jobs, job_queue[i])]
       IN /\ job.status = PENDING
          /\ job.progress = 0
          /\ job.result_path = None
          /\ job.error = None

\* add_jobs is about to return the ids of two different files of different sizes
C14_Witness ==
  \E c \in Callers :
    /\ adder[c].pc = "compute"
    /\ adder[c].file_paths = << >>
    /\ Len(adder[c].job_ids) = 2
    /\ adder[c].given[1][1] = "old"
    /\ adder[c].given[2][1] = "in"
    /\ adder[c].settings.diarize

\* C15: no step removes or replaces an entry of the table, so its size never
\* decreases, and get_all_jobs lists every job ever added exactly once,
\* whatever the job's status.
C15_NoRemoval ==
  [][/\ Len(jobs') >= Len(jobs)
     /\ \A i \in 1..Len(jobs) : jobs'[i] = jobs[i]
     /\ \A i, j \in 1..Len(jobs') :
          i # j => jobs'[i].v # jobs'[j].v /\ heap'[jobs'[i].v].id # heap'[jobs'[j].v].id]_vars

\* both jobs of the table have ended or been cancelled and are still listed
C15_Witness ==
  /\ Len(jobs) = 2
  /\ heap[jobs[1].v].status = CANCELLED
  /\ heap[jobs[2].v].status = COMPLETED
  /\ completed_queue = << jobs[1].k, jobs[2].k >>

\* C16: a scheduler built with max_workers = n never has more than n worker
\* threads running, so never more than n jobs in process at once, also when
\* start_workers is called more than once.
C16_PoolBound ==
  /\ Cardinality({ t \in Threads : w[t].pc \notin {"unborn", "exited"} }) <= max_workers
  /\ Cardinality({ t \in Threads : InProcess(t) }) <= max_workers

\* C17: get_all_jobs is a pure read: the call changes nothing of the scheduler,
\* it returns the jobs of the table in the order of the table, and a second call
\* on a table that has not grown since returns the same jobs in the same order;
\* their field values are those of the heap, which neither call has changed.
C17_PureRead ==
  [][get_all_jobs =>
       /\ UNCHANGED << heap, jobs, job_queue, completed_queue, workers, is_running, model,
                       w, adder, report, diar, dequeued, outcome >>
       /\ Len(held'[1].refs) = Len(jobs)
       /\ \A i \in 1..Len(jobs) : heap'[held'[1].refs[i]] = heap[DictGet(jobs, jobs[i].k)]
       /\ (held # None /\ held[1].call = "get_all_jobs" /\ Len(held[1].refs) = Len(jobs))
            => held' = held]_vars

\* get_all_jobs has listed two jobs while workers are at work and results are
\* waiting on the completion channel
C17_Witness ==
  /\ held # None
  /\ held[1].call = "get_all_jobs"
  /\ Len(held[1].refs) = 2
  /\ completed_queue # << >>
  /\ \E t \in Threads : InTry(t)

\* worker t has taken this step itself
Stepped(t) == w'[t].pc # w[t].pc

\* C18: transcribe_file fails with FileNotFoundError when the file does not
\* exist, whatever its suffix, and with ValueError when the file exists and its
\* lower-cased suffix is outside the allow-list; a file with an allowed suffix,
\* in whatever case it is written, goes on to the engine.  Both failures come
\* before any progress milestone and leave the engine as it was.
C18_Validation ==
  [][\A t \in Threads :
       /\ (w[t].pc = "validate" /\ Stepped(t)) =>
            \/ w'[t].pc = "format" /\ heap' = heap /\ model' = model
            \/ /\ w'[t].pc = "except"
               /\ w'[t].exc = "Audio file not found"
       /\ (w[t].pc = "format" /\ Stepped(t)) =>
            IF lower(heap[w[t].job].file_path[3]) \in SUPPORTED_FORMATS
            THEN w'[t].pc = IF model = None THEN "load10" ELSE "cb25"
            ELSE /\ w'[t].pc = "except"
                 /\ w'[t].exc = "Unsupported audio format"
       /\ (w[t].pc \in {"validate", "format"} /\ w'[t].pc = "except") =>
            /\ heap' = heap
            /\ model' = model
            /\ heap[w[t].job].progress = 10
            /\ heap[w[t].job].metadata.status_message = None]_vars

\* a missing file with a suffix outside the allow-list has failed as not found,
\* and a file whose suffix is written in upper case has passed the checks
C18_Witness ==
  /\ \E t \in Threads :
       /\ w[t].pc = "except"
       /\ w[t].exc = "Audio file not found"
       /\ heap[w[t].job].file_path[3] = ".txt"
  /\ \E a \in Addrs :
       /\ heap[a].file_path[3] = ".WAV"
       /\ heap[a].progress = 25

\* str(e) of the RuntimeError raised for the engine's exception
EngineFailure == "Transcription failed: decode error"

\* C19: an exception of the engine's transcribe call leaves transcribe_file as
\* a RuntimeError whose message holds the engine's message; the job then stays
\* at the 30 milestone (70, 75 and 95 are never emitted), no result is produced,
\* and the worker that called is not ended by the exception.
C19_EngineFailure ==
  /\ \A t \in Threads :
       /\ ( /\ w[t].pc = "except"
            /\ heap[w[t].job].metadata.status_message = Some("Transcribing audio...") )
            => w[t].exc = EngineFailure
       /\ w[t].exc = EngineFailure =>
            /\ w[t].pc \in {"except", "finally"}
            /\ outcome[w[t].job] = "raised"
            /\ heap[w[t].job].progress = 30
  /\ \A a \in Addrs :
       heap[a].error = Some(EngineFailure) =>
         /\ heap[a].status = FAILED
         /\ heap[a].progress = 30
         /\ heap[a].metadata.status_message = Some("Transcribing audio...")
         /\ heap[a].result_path = None
         /\ outcome[a] = "raised"

\* the engine has failed on one job, and the worker that ran it has gone on to
\* the next job
C19_Witness ==
  /\ Len(heap) = 2
  /\ heap[1].error = Some(EngineFailure)
  /\ completed_queue = << heap[1].id >>
  /\ \E t \in Threads : w[t].job = 2 /\ w[t].pc = "cb70"
  /\ \E t \in Threads : w[t].pc = "loop"

\* C20: with diarize = true, when the diarization engine cannot be loaded or
\* raises, in its run or at any point of the iteration over its turns,
\* transcribe_file still emits 95 and returns every segment, and each segment's
\* speaker is the one the pause heuristic alone gives it: no label of the
\* unfinished overlap assignment is left.
C20_Fallback ==
  (diar.pc = "done" /\ diar.fallback) =>
    /\ diar.emitted = << 75, 95 >>
    /\ diar.returned # None
    /\ Len(diar.returned[1]) = Len(diar.given)
    /\ \A i \in 1..Len(diar.given) :
         /\ diar.returned[1][i].start = diar.given[i].start
         /\ diar.returned[1][i].end = diar.given[i].end
         /\ diar.returned[1][i].speaker = _simple_speaker_assignment(diar.given)[i].speaker

\* the turn iteration raised on the second segment, after the first segment had
\* been given the label of the one turn, which covers it; the pause heuristic
\* gave the second segment "Speaker 2"
C20_Witness ==
  /\ diar.pc = "done"
  /\ diar.fallback
  /\ diar.i = 2
  /\ Len(diar.turns) = 1
  /\ diar.turns[1].speaker = "SPEAKER_01"
  /\ diar.turns[1].start <= diar.given[1].start
  /\ diar.turns[1].end >= diar.given[1].end
  /\ diar.returned[1][1].speaker = "Speaker 1"
  /\ Len(diar.returned[1]) = 2
  /\ diar.returned[1][2].speaker = "Speaker 2"

\* the overlap of a segment and a turn
Overlap(segment, turn) ==
  Max2(0, Min2(segment.end, turn.end) - Max2(segment.start, turn.start))

\* the label of the first turn whose overlap with the segment is the largest of
\* all turns, if that is positive; "Speaker 1" otherwise
FirstBest(segment, turns) ==
  LET best == { j \in 1..Len(turns) :
                  /\ Overlap(segment, turns[j]) > 0
                  /\ \A k \in 1..Len(turns) :
                       Overlap(segment, turns[k]) <= Overlap(segment, turns[j]) }
  IN IF best = {} THEN "Speaker 1"
     ELSE turns[CHOOSE j \in best : \A k \in best : j <= k].speaker

\* C21: every segment the overlap assignment has dealt with carries the label
\* of the first turn, in iteration order, whose overlap with it is the maximum
\* over all turns, provided that maximum is positive, and "Speaker 1" if it
\* overlaps no turn.
C21_MaxOverlap ==
  (~diar.fallback /\ diar.pc \in {"segment", "turn", "fallback", "cb95", "done"}) =>
    \A k \in 1..Len(diar.segments) :
      k < diar.i => diar.segments[k].speaker = FirstBest(diar.given[k], diar.turns)

\* two segments are returned: the first overlaps two turns equally and has the
\* label of the earlier one, the second overlaps no turn and is "Speaker 1"
C21_Witness ==
  /\ diar.pc = "done"
  /\ ~diar.fallback
  /\ Len(diar.given) = 2
  /\ Len(diar.turns) = 2
  /\ Overlap(diar.given[1], diar.turns[1]) = 1
  /\ Overlap(diar.given[1], diar.turns[2]) = 1
  /\ diar.turns[1].speaker = "SPEAKER_01"
  /\ diar.turns[2].speaker = "SPEAKER_00"
  /\ Overlap(diar.given[2], diar.turns[1]) = 0
  /\ Overlap(diar.given[2], diar.turns[2]) = 0
  /\ diar.returned[1][1].speaker = "SPEAKER_01"
  /\ diar.returned[1][2].speaker = "Speaker 1"

\* the number of pauses longer than the threshold up to segment i
LongGaps(segments, i) ==
  Cardinality({ k \in 2..i : segments[k].start - segments[k - 1].end > 2 })

\* C22: what the pause heuristic returns: as many segments as it was given,
\* with their times, segment i labelled "Speaker 1" when the number of pauses
\* of more than 2 seconds up to it is even and "Speaker 2" when it is odd; the
\* empty sequence comes back empty.
C22_PauseHeuristic ==
  (diar.fallback /\ diar.pc \in {"cb95", "done"}) =>
    /\ Len(diar.segments) = Len(diar.given)
    /\ \A i \in 1..Len(diar.given) :
         /\ diar.segments[i].start = diar.given[i].start
         /\ diar.segments[i].end = diar.given[i].end
         /\ diar.segments[i].speaker =
              IF LongGaps(diar.given, i) % 2 = 0 THEN "Speaker 1" ELSE "Speaker 2"

\* three segments with a pause at the threshold and a longer one are labelled
\* "Speaker 1", "Speaker 1", "Speaker 2"
C22_Witness ==
  /\ diar.pc = "done"
  /\ diar.fallback
  /\ Len(diar.given) = 3
  /\ diar.given[2].start - diar.given[1].end = 2
  /\ diar.given[3].start - diar.given[2].end > 2
  /\ diar.returned[1][1].speaker = "Speaker 1"
  /\ diar.returned[1][2].speaker = "Speaker 1"
  /\ diar.returned[1][3].speaker = "Speaker 2"

\* C27: job ids leave the job queue in the order they were put on it, whichever
\* worker takes them: the ids taken so far, followed by those still queued, are
\* the ids of all jobs in the order they were added.
C27_Fifo ==
  Enqueued = [i \in 1..Len(heap) |-> heap[i].id]

\* both jobs were taken in the order they were added, and the second completed
\* before the first
C27_Witness ==
  /\ Len(heap) = 2
  /\ dequeued = << heap[1].id, heap[2].id >>
  /\ completed_queue = << heap[2].id, heap[1].id >>

\* C28 as stated: once a worker has pushed the completion of a job, the job's
\* status is the worker's outcome, Completed or Failed, whenever cancel_job was
\* called after the job was taken off the queue.
C28_LastStatus ==
  \A i \in 1..Len(completed_queue) :
    heap[DictGet(jobs, completed_queue[i])].status \in {COMPLETED, FAILED}

\* C28, amended: cancel_job changes no worker; a worker that holds a job,
\* cancelled or not, can always take its next step; its final write sets the
\* status to its own outcome whatever the status was, so a Cancelled written
\* before the final write is replaced, and the completion is pushed with the
\* status of that moment, which is the worker's outcome unless cancel_job was
\* called after the final write.
C28_CancelIgnored ==
  [][/\ \A t \in Threads :
          /\ (InProcess(t) /\ w'[t] = w[t]) => ENABLED Worker(t)
          /\ (w[t].pc \in {"complete", "except"} /\ w'[t].pc = "finally") =>
               heap'[w[t].job].status = IF outcome[w[t].job] = "ok" THEN COMPLETED ELSE FAILED
          /\ (w[t].pc = "finally" /\ w'[t].pc = "loop") =>
               /\ completed_queue' = Append(completed_queue, w[t].job_id)
               /\ heap[w[t].job].status \in {COMPLETED, FAILED, CANCELLED}
     /\ (\E a \in Addrs : heap[a].status # CANCELLED /\ heap'[a].status = CANCELLED) =>
          UNCHANGED << w, job_queue, completed_queue, outcome, is_running >>]_vars

\* a worker is about to write Completed over the Cancelled that cancel_job wrote
\* while the job was being transcribed
C28_Witness ==
  \E t \in Threads :
    /\ w[t].pc = "complete"
    /\ heap[w[t].job].status = CANCELLED
    /\ heap[w[t].job].progress = 95
    /\ outcome[w[t].job] = "ok"

\* C29: once the running flag has been cleared, every worker thread leaves its
\* loop; a thread ends only at the loop test, so a worker that holds a job
\* first takes it to its final status and pushes its completion.
C29_WorkersExit ==
  /\ (workers # << >> /\ ~is_running) ~> (\A t \in Range(workers) : w[t].pc = "exited")
  /\ [][\A t \in Threads :
          (w[t].pc # "exited" /\ w'[t].pc = "exited") =>
            /\ w[t].pc = "loop"
            /\ ~is_running
            /\ w[t].job_id = ""]_vars

\* the flag was cleared while a job was in process: the job has completed, its
\* completion has been pushed and both workers have left their loops
C29_Witness ==
  /\ ~is_running
  /\ workers # << >>
  /\ \A t \in Range(workers) : w[t].pc = "exited"
  /\ Len(completed_queue) = 1
  /\ heap[1].status = COMPLETED

\* C30: every step that writes the job table or a field of a job (add_jobs, a
\* worker in _process_job, the progress callback, cancel_job) is taken by a
\* thread inside its `with self.lock:` block - no other thread holds the lock
\* at that step and the lock is free again after it - and at most one thread
\* holds the lock at any time.
C30_LockedWrites ==
  [][ /\ Cardinality(lock) <= 1
      /\ Cardinality(lock') <= 1
      /\ (heap' # heap \/ jobs' # jobs) =>
           /\ lock' = {}
           /\ \/ \E t \in Threads : w'[t] # w[t] /\ lock \subseteq {ThreadName(t)}
              \/ \E c \in Callers : adder'[c] # adder[c] /\ lock \subseteq {c}
              \/ w' = w /\ adder' = adder /\ lock = {} ]_vars

\* a worker holds the lock ahead of its final write while the caller of
\* add_jobs waits at its own block, jobs having been written before
C30_Witness ==
  \E t \in Threads, c \in Callers :
    /\ lock = {ThreadName(t)}
    /\ w[t].pc = "complete"
    /\ adder[c].pc = "insert"
    /\ heap[w[t].job].progress = 95

\* the five formats as the callers spell them, in any letter case
Spellings == {"json", "JSON", "txt", "Txt", "srt", "SRT", "vtt", "csv"}
\* the files at the output path of the call
AtOutputPath(files) == { f \in files : f.path = exp.output_path }

\* C23: export_transcription accepts json, txt, srt, vtt and csv in any letter
\* case: it then never raises, leaves exactly one file at the output path,
\* holding what the call wrote whatever was there before, touches no other
\* file and returns that path; for any other format it raises ValueError, never
\* returns, and no step of it writes a file.
C23_Export ==
  [][ /\ exp.given \in Spellings =>
           /\ exp'.pc # "raised"
           /\ exp'.raised = None
      /\ exp.given \notin Spellings =>
           /\ exp'.pc \notin {"return", "done"}
           /\ exp'.returned = None
           /\ fs'.files = fs.files
      /\ exp'.pc = "raised" =>
           exp'.raised = Some("Unsupported export format: " \o lower(exp.given))
      /\ exp'.pc = "done" =>
           /\ exp'.returned = Some(exp.output_path[1] \o "/" \o exp.output_path[2])
           /\ Cardinality(AtOutputPath(fs'.files)) = 1
           /\ \A f \in AtOutputPath(fs'.files) :
                /\ f.content # OldContent
                /\ f.content.kind = (IF lower(exp.given) = "json" THEN "json"
                                     ELSE IF lower(exp.given) = "csv" THEN "csv" ELSE "text")
      /\ fs'.files \ AtOutputPath(fs'.files) = fs.files \ AtOutputPath(fs.files) ]_vars

\* a call with the format in upper case has returned, having overwritten the
\* file that was at the output path and left the file next to it alone
C23_Witness ==
  /\ exp.pc = "done"
  /\ exp.given = "SRT"
  /\ exp.segments # << >>
  /\ exp.output_path = <<"out", "t.out">>
  /\ [path |-> <<"out", "other">>, content |-> OldContent] \in fs.files
  /\ exp.returned = Some("out/t.out")

\* the whole milliseconds in the double that stands for time t
WholeMillis(t) == IF t \in TruncatedBelow THEN t - 1 ELSE t
\* the (start, end, text) triples of a segment list, in order, start and end
\* to the millisecond
Triples(segments) ==
  [i \in 1..Len(segments) |->
     << WholeMillis(segments[i].start), WholeMillis(segments[i].end), segments[i].text >>]

\* C24: SRT round trip: the blocks of an exported srt file give back the
\* (start, end, text) triples of the segments, in order and numbered 1..n,
\* start and end to the millisecond - so the file is that of no segment list
\* with other triples.
C24_RoundTrip ==
  (exp.pc = "done" /\ exp.format = "srt") =>
    \A f \in AtOutputPath(fs.files) :
      \A other \in ExportedLists :
        _export_srt(other) = f.content.text => Triples(other) = Triples(exp.segments)

\* segment i has another speaker than the segment before it; the first
\* segment counts as a change
SpeakerChange(segments, i) == i = 1 \/ segments[i].speaker # segments[i - 1].speaker
\* the text file of the first n segments: each text on a line, a blank line
\* and a [speaker] line ahead of every change of speaker
RECURSIVE PlainText(_, _)
PlainText(segments, n) ==
  IF n = 0 THEN ""
  ELSE PlainText(segments, n - 1)
         \o (IF SpeakerChange(segments, n)
             THEN "\n" \o "[" \o segments[n].speaker \o "]" \o "\n" ELSE "")
         \o segments[n].text \o "\n"

\* C25: TXT export: the file holds every segment's text as a line, in segment
\* order, with a blank line and a [speaker] line exactly before each segment
\* whose speaker differs from that of the segment before it (the first segment
\* counts as a change), and nothing between two segments of one speaker.
C25_Text ==
  (exp.pc \in {"return", "done"} /\ exp.format = "txt") =>
    /\ Cardinality(AtOutputPath(fs.files)) = 1
    /\ \A f \in AtOutputPath(fs.files) :
         f.content = [kind |-> "text", text |-> PlainText(exp.segments, Len(exp.segments))]

\* a text export of three segments has returned: two of one speaker, then one
\* of another
C25_Witness ==
  /\ exp.pc = "done"
  /\ exp.format = "txt"
  /\ Len(exp.segments) = 3
  /\ exp.segments[1].speaker = exp.segments[2].speaker
  /\ exp.segments[2].speaker # exp.segments[3].speaker
  /\ \E f \in AtOutputPath(fs.files) :
       f.content.text = "\n[Speaker 1]\nx\ny\n\n[Speaker 2]\nx\n"

\* the distinct speaker labels of a segment list
SpeakersOf(segments) == { segments[i].speaker : i \in 1..Len(segments) }

\* C26: JSON export: the document holds the segments in input order,
\* metadata.total_segments is their number, metadata.total_duration is the end
\* of the last segment (0 for no segments), and metadata.speakers holds each
\* distinct speaker label of the segments exactly once and nothing else.
C26_Json ==
  (exp.pc \in {"return", "done"} /\ exp.format = "json") =>
    /\ Cardinality(AtOutputPath(fs.files)) = 1
    /\ \A f \in AtOutputPath(fs.files) :
         /\ f.content.kind = "json"
         /\ LET data == f.content.data
                n == Len(exp.segments)
            IN /\ Len(data.segments) = n
               /\ \A i \in 1..n :
                    /\ data.segments[i].start = exp.segments[i].start
                    /\ data.segments[i].end = exp.segments[i].end
                    /\ data.segments[i].text = exp.segments[i].text
                    /\ data.segments[i].speaker = exp.segments[i].speaker
               /\ data.metadata.total_segments = n
               /\ data.metadata.total_duration = (IF n = 0 THEN 0 ELSE exp.segments[n].end)
               /\ \A label \in SpeakersOf(exp.segments) :
                    Cardinality({ k \in 1..Len(data.metadata.speakers) :
                                    data.metadata.speakers[k] = label }) = 1
               /\ \A k \in 1..Len(data.metadata.speakers) :
                    data.metadata.speakers[k] \in SpeakersOf(exp.segments)

\* a JSON export of three segments has returned, the first and the last of
\* one speaker, and the speakers are listed in the other order
C26_Witness ==
  /\ exp.pc = "done"
  /\ exp.format = "json"
  /\ Len(exp.segments) = 3
  /\ exp.segments[1].speaker = "Speaker 1"
  /\ exp.segments[2].speaker = "Speaker 2"
  /\ exp.segments[3].speaker = "Speaker 1"
  /\ \E f \in AtOutputPath(fs.files) :
       /\ f.content.kind = "json"
       /\ f.content.data.metadata.speakers = << "Speaker 2", "Speaker 1" >>
       /\ f.content.data.metadata.total_duration = 360000000

\* the last percentage the progress callback of worker t's call has emitted,
\* 0 when it has emitted none (every milestone leaves its own message)
LastEmitted(t) ==
  IF heap[w[t].job].metadata.status_message = None THEN 0 ELSE heap[w[t].job].progress
\* a step in which the progress callback of worker t's call emits a milestone
Emits(t) ==
  /\ InTry(t)
  /\ w'[t] # w[t]
  /\ heap'[w[t].job].metadata.status_message # heap[w[t].job].metadata.status_message

\* C31: the percentages a transcribe_file call emits are 10 and 20 (only in a
\* call that initialises the engine), 25, 30, 70, 75 (only when diarize is true)
\* and 95, in this order and strictly increasing; a call returns right after
\* emitting 95, and 100 is never emitted by the pipeline.
C31_Milestones ==
  [][\A t \in Threads :
       /\ Emits(t) =>
            LET p == LastEmitted(t)
                q == heap'[w[t].job].progress
                diarize == heap[w[t].job].metadata.settings.diarize
            IN /\ q \in {10, 20, 25, 30, 70, 75, 95}
               /\ q > p
               /\ p = 0 => q = (IF w[t].pc = "load10" THEN 10 ELSE 25)
               /\ p = 10 => q = 20
               /\ p = 20 => q = 25
               /\ p = 25 => q = 30
               /\ p = 30 => q = 70
               /\ p = 70 => q = (IF diarize THEN 75 ELSE 95)
               /\ p = 75 => q = 95
               /\ p # 95
               /\ q = 10 => w'[t].pc = "load"
               /\ q = 20 => w[t].pc = "load20" /\ model # None
       /\ (InTry(t) /\ w[t].pc # "export" /\ w'[t].pc = "export") =>
            Emits(t) /\ heap'[w[t].job].progress = 95 ]_vars

\* a call with diarize set that initialised the engine itself has returned
\* after its last milestone
C31_Witness ==
  \E t \in Threads :
    /\ w[t].pc = "export"
    /\ heap[w[t].job].progress = 95
    /\ heap[w[t].job].metadata.settings.diarize
    /\ heap[w[t].job].metadata.status_message = Some("Finalizing transcription...")
    /\ Len(heap) = 1

\* what a failed engine initialisation raises
InitFailures == {"Whisper is not installed", "model load failed"}

\* C32: in calls that follow one another on one pipeline, a call that passes
\* validation initialises the engine exactly when it is not initialised; an
\* initialised engine is never replaced; 10 and 20 are emitted only by a call
\* that initialises; a call whose initialisation fails ends without emitting 25
\* or reaching the engine and leaves the engine uninitialised.
C32_LazyInit ==
  /\ [](\A t \in Threads :
          /\ w[t].pc \in {"load10", "load"} => model = None
          /\ (w[t].pc \in {"except", "finally"} /\ w[t].exc \in InitFailures) =>
               /\ model = None
               /\ heap[w[t].job].progress = 10
               /\ heap[w[t].job].metadata.status_message
                    \in {None, Some("Loading Whisper model...")})
  /\ [](\A a \in Addrs :
          (heap[a].error # None /\ heap[a].error[1] \in InitFailures) =>
             heap[a].status = FAILED /\ heap[a].progress = 10)
  /\ [][ /\ model' # model => model = None /\ model' # None
         /\ \A t \in Threads :
              /\ (w[t].pc = "format" /\ w'[t].pc \notin {"format", "except"}) =>
                   w'[t].pc = (IF model = None THEN "load10" ELSE "cb25")
              /\ (w[t].pc \in {"load10", "load"} /\ w'[t].pc = "except") =>
                   w'[t].exc \in InitFailures /\ model' = None
              /\ (Emits(t) /\ heap'[w[t].job].progress \in {10, 20}) =>
                   w[t].pc \in {"load10", "load20"} ]_vars

\* the first call failed to load the engine and the next call has loaded it
C32_Witness ==
  \E a, b \in Addrs :
    /\ a < b
    /\ heap[a].error = Some("model load failed")
    /\ w[1].job = b /\ w[1].pc = "load20"
    /\ model # None

\* the start and end times of the segments of the call
TimesOf(segments) ==
  { segments[i].start : i \in 1..Len(segments) } \cup { segments[i].end : i \in 1..Len(segments) }

\* C33: for every time in whole milliseconds that an srt or vtt export has
\* formatted, both formatters print the same four fields, with a comma (srt) or
\* a dot (vtt) before the milliseconds: minutes and seconds within 0..59,
\* milliseconds within 0..999, hours not reduced modulo 24, and
\* hours*3600000 + minutes*60000 + seconds*1000 + milliseconds is the time.
C33_Fields ==
  (exp.pc = "done" /\ exp.format \in {"srt", "vtt"}) =>
    \A t \in TimesOf(exp.segments) :
      LET front == Pad2(hours(t)) \o ":" \o Pad2(minutes(t)) \o ":" \o Pad2(secs(t))
      IN /\ _format_timestamp_srt(t) = front \o "," \o Pad3(millis(t))
         /\ _format_timestamp_vtt(t) = front \o "." \o Pad3(millis(t))
         /\ minutes(t) \in 0..59
         /\ secs(t) \in 0..59
         /\ millis(t) \in 0..999
         /\ t >= 24 * 3600000 => hours(t) >= 24
         /\ hours(t) * 3600000 + minutes(t) * 60000 + secs(t) * 1000 + millis(t) = t

\* C34: with two threads in add_jobs at once, every job record has an id of
\* its own, every record made is still in the table under its id (none was
\* overwritten), and no id is in the queue twice.
C34_ConcurrentAdd ==
  /\ \A a, b \in Addrs : a # b => heap[a].id # heap[b].id
  /\ \A a \in Addrs : DictHas(jobs, heap[a].id) /\ DictGet(jobs, heap[a].id) = a
  /\ \A i, j \in 1..Len(job_queue) : i # j => job_queue[i] # job_queue[j]

\* the job at address a was cancelled while Pending and no worker has begun it
CancelledPending(a) ==
  /\ a \in Addrs
  /\ heap[a].status = CANCELLED
  /\ heap[a].progress = 0

\* C35: cancel_job on a Pending job leaves its id in the job queue; with the
\* workers running the id is dequeued, the job set to Processing and put
\* through transcription and export like any other, and it ends Completed or
\* Failed with its id on the completion queue.
C35_StillProcessed ==
  /\ [][\A a \in Addrs :
          (heap[a].status = PENDING /\ heap'[a].status = CANCELLED) =>
             /\ job_queue' = job_queue
             /\ dequeued' = dequeued
             /\ Count(job_queue \o dequeued, heap[a].id) = 1 ]_vars
  /\ \A a \in 1..MaxJobs :
       /\ CancelledPending(a) ~>
            (a \in Addrs /\ heap[a].status = PROCESSING /\ heap[a].progress = 10)
       /\ CancelledPending(a) ~>
            [](/\ a \in Addrs
               /\ heap[a].status \in {COMPLETED, FAILED}
               /\ heap[a].status = COMPLETED <=> outcome[a] = "ok"
               /\ heap[a].status = FAILED <=> outcome[a] = "raised"
               /\ Count(completed_queue, heap[a].id) = 1)

\* a worker has dequeued the id of a job cancelled while Pending and is about
\* to set it to Processing
C35_Witness ==
  \E t \in Threads :
    /\ w[t].pc = "begin"
    /\ CancelledPending(DictGet(jobs, w[t].job_id))
    /\ w[t].job_id \in Range(dequeued)

\* every worker thread of the pool has left its loop
AllExited == workers # << >> /\ \A t \in Range(workers) : w[t].pc = "exited"

\* C36: once the running flag of a started pool is cleared it stays cleared,
\* and no worker begins another wait on the queue; a worker takes an id off the
\* queue only out of a wait it is in, so it dequeues at most one further job.
\* When all workers have exited nothing is dequeued any more, and the jobs of
\* the ids in the queue are Pending or Cancelled with progress 0.
C36_AfterStop ==
  /\ [][ /\ (workers # << >> /\ ~is_running) => ~is_running'
         /\ \A t \in Threads :
              /\ (w[t].pc # "get" /\ w'[t].pc = "get") => is_running /\ w[t].pc = "loop"
              /\ (w[t].pc = "get" /\ w'[t].pc # "get") =>
                   \/ w'[t].pc = "loop" /\ dequeued' = dequeued
                   \/ w'[t].pc = "begin" /\ Len(dequeued') = Len(dequeued) + 1
              /\ w[t].pc = "exited" => w'[t].pc = "exited"
         /\ dequeued' # dequeued =>
              \E t \in Threads : w[t].pc = "get" /\ w'[t].pc = "begin"
         /\ AllExited =>
              /\ dequeued' = dequeued
              /\ SubSeq(job_queue', 1, Len(job_queue)) = job_queue ]_vars
  /\ [](\A i \in 1..Len(job_queue) :
          /\ DictHas(jobs, job_queue[i])
          /\ heap[DictGet(jobs, job_queue[i])].status \in {PENDING, CANCELLED}
          /\ heap[DictGet(jobs, job_queue[i])].progress = 0)

\* the flag is cleared and all workers have exited; one id was taken off the
\* queue, the other is left in it and its job was cancelled meanwhile
C36_Witness ==
  /\ AllExited
  /\ ~is_running
  /\ Len(dequeued) = 1
  /\ Len(job_queue) = 1
  /\ heap[DictGet(jobs, job_queue[1])].status = CANCELLED
  /\ heap[DictGet(jobs, job_queue[1])].progress = 0

\* worker t's call completes whisper.load_model and assigns self.model
Initialises(t) == w[t].pc = "load" /\ w'[t].pc = "load20"

\* C37: with several workers on one pipeline the engine is initialised at
\* most once: a load is completed only while the engine is uninitialised, so
\* no load replaces a handle that is in place.
C37_InitOnce ==
  [][\A t \in Threads : Initialises(t) => model = None /\ model' # None]_vars

\* the add_jobs call of c raises at the path it has come to
Raises(c) == adder[c].pc = "compute" /\ adder'[c].pc = "raised"

\* C38: when the file size cannot be read for the k-th path, add_jobs raises
\* there: the k-1 jobs made before are in the table under their ids, with the
\* paths given, and their ids were enqueued; nothing is added to the table,
\* the heap or the queue for the k-th or a later path; the caller gets no ids;
\* and with the workers running every job in the table is processed to its end.
C38_PartialAdd ==
  /\ [][\A c \in Callers :
          Raises(c) =>
            LET n == Len(adder[c].job_ids)
            IN /\ n + Len(adder[c].file_paths) = Len(adder[c].given)
               /\ n < Len(adder[c].given)
               /\ heap' = heap /\ jobs' = jobs /\ job_queue' = job_queue
               /\ adder'[c].job_ids = << >>
               /\ \A i \in 1..n :
                    /\ DictHas(jobs, adder[c].job_ids[i])
                    /\ heap[DictGet(jobs, adder[c].job_ids[i])].file_path = adder[c].given[i]
                    /\ Count(Enqueued, adder[c].job_ids[i]) = 1
                    /\ adder[c].job_ids[i] \in Range(job_queue) =>
                         heap[DictGet(jobs, adder[c].job_ids[i])].status = PENDING ]_vars
  /\ \A a \in 1..MaxJobs :
       (a \in Addrs) ~> [](a \in Addrs /\ heap[a].status \in {COMPLETED, FAILED})

\* a call for two paths has raised at the second one; the job of the first is
\* alone in the table and a worker has completed it
C38_Witness ==
  \E c \in Callers :
    /\ adder[c].pc = "raised"
    /\ Len(jobs) = 1
    /\ Len(heap) = 1
    /\ heap[jobs[1].v].status = COMPLETED
    /\ job_queue = << >>

\* C39: the scheduler never deadlocks on self.lock: a thread that holds it
\* stands at the body of its own block - not at a queue wait, an engine call,
\* the export or another acquire - and can always take its next step; that
\* step leaves the block and releases the lock, also in the handler that runs
\* after transcription or export has raised; so a lock that is held is always
\* released again.
C39_NoDeadlock ==
  /\ [](/\ \A t \in Threads :
             ThreadName(t) \in lock =>
               /\ AtLockBlock(t)
               /\ ENABLED Worker(t)
               /\ ~ENABLED WorkerAcquire(t)
        /\ \A c \in Callers :
             c \in lock =>
               /\ adder[c].pc = "insert"
               /\ ENABLED AddJobsInsert(c)
               /\ ~ENABLED AddJobsAcquire(c))
  /\ [][ /\ \A t \in Threads :
              (ThreadName(t) \in lock /\ w'[t] # w[t]) =>
                 lock' = {}
         /\ \A c \in Callers :
              (c \in lock /\ adder'[c] # adder[c]) => lock' = {}
         /\ \A t \in Threads :
              (InTry(t) /\ w'[t].pc = "except") => ThreadName(t) \notin lock /\ lock' = lock ]_vars
  /\ (lock # {}) ~> (lock = {})

\* a worker whose transcription has raised holds the lock for its handler
\* while the caller of add_jobs waits at its own block
C39_Witness ==
  \E t \in Threads, c \in Callers :
    /\ lock = {ThreadName(t)}
    /\ w[t].pc = "except"
    /\ w[t].exc = "Transcription failed: decode error"
    /\ adder[c].pc = "insert"

====
